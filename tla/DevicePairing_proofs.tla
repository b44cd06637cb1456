------------------------ MODULE DevicePairing_proofs ------------------------
(***************************************************************************)
(* Proofs about DevicePairing for every number of calls, servers, devices  *)
(* and faults: type correctness, that memory is backed by the database,    *)
(* who is let in, and that the tables implement PairingLedger.             *)
(***************************************************************************)
EXTENDS DevicePairing, TLAPS

-----------------------------------------------------------------------------
(* The database *)

\* A row that is open, what it says of its token, and who made it.
RowInv ==
    /\ \A id \in Connects : at[id] \in {"idle", "begun", "asking"} => rows[id] = None
    /\ \A id \in Opened : rows[id].token # None <=> rows[id].status = "Approved"
    /\ \A id \in Opened : rows[id].token # None =>
          /\ target[rows[id].token] = id
          /\ at[rows[id].token] \in {"committed", "done", "lost"}

\* device and token are those of a row.
Backing(device) ==
    \E id \in Connects : /\ rows[id] # None
                         /\ rows[id].token = device.token /\ rows[id].ask = device.ask

TokenInv ==
    \A d \in Devices : tokens[d] # None => tokens[d].ask.device = d /\ Backing(tokens[d])

\* What a call that has begun knows.
CallInv ==
    /\ \A c \in Calls : at[c] = "idle" <=> reg[c] = None
    /\ \A c \in Calls : at[c] # "idle" => reg[c] \in {c} \cup Servers
    /\ \A c \in Connects : at[c] # "idle" => ask[c] \in Asks
    /\ \A c \in Connects : at[c] # "committed"
    /\ \A c \in Resolves : at[c] # "asking"
    /\ \A c \in Resolves : at[c] # "idle" => target[c] \in Connects /\ rows[target[c]] # None
    /\ \A c \in Calls : answer[c] # None => at[c] = "done"

\* What a registry remembers is in the database.
Remembers(request, id) ==
    /\ rows[id] # None
    /\ rows[id].ask = request.ask
    /\ request.status = "Approved" => rows[id].status = "Approved"
    /\ request.status = "Rejected" => rows[id].status # "Pending"

Sound(m) ==
    /\ \A id \in Connects : m.requests[id] # None => Remembers(m.requests[id], id)
    /\ m.approved # None => \A d \in Devices : m.approved[d] # None =>
          m.approved[d].ask.device = d /\ Backing(m.approved[d])

MemInv ==
    /\ \A r \in Registries : memory[r] # None => Sound(memory[r])
    /\ \A c \in Calls : memory[c] # None => at[c] # "idle"
    /\ \A c \in Resolves : at[c] = "committed" =>
          /\ IsOpen(reg[c]) /\ Known(c) # None
          /\ rows[target[c]].token = c

\* A token that was superseded when a connect began is not current again, and no
\* registry made since then holds it.
OldInv ==
    \A c \in Connects :
        /\ \A t \in old[c] : \E id \in Connects : rows[id] # None /\ rows[id].token = t
        /\ \A d \in Devices : tokens[d] # None => tokens[d].token \notin old[c]
        /\ memory[c] # None /\ memory[c].approved # None =>
              \A d \in Devices : memory[c].approved[d] # None => memory[c].approved[d].token \notin old[c]

Inv == TypeOK /\ RowInv /\ TokenInv /\ CallInv /\ MemInv /\ OldInv
       /\ AuthorizedAsApproved /\ SupersededTokensRefused

\* No row is taken back: it keeps what was asked, and what was decided.
RowsGrow ==
    \A id \in Connects : rows[id] # None =>
        /\ rows'[id] # None
        /\ rows'[id].ask = rows[id].ask
        /\ rows[id].token # None => rows'[id].token = rows[id].token
        /\ rows[id].status = "Approved" => rows'[id].status = "Approved"
        /\ rows[id].status # "Pending" => rows'[id].status # "Pending"

-----------------------------------------------------------------------------
(* What the constants give *)

LEMMA Distinct ==
    /\ \A c \in Connects : c \in Calls /\ c \notin Resolves /\ c \notin Servers /\ c \in Registries
    /\ \A c \in Resolves : c \in Calls /\ c \notin Connects /\ c \notin Servers /\ c \in Registries
    /\ \A s \in Servers : s \in Registries /\ s \notin Calls
    /\ None \notin Registries /\ None \notin Resolves /\ None \notin Connects /\ None \notin Servers
    /\ None \notin Request /\ None \notin Device /\ None \notin Memory
    /\ None \notin [Devices -> Device \cup {None}]
    /\ None # "authorized" /\ None \notin Statuses
    /\ \A a \in Asks : a.device \in Devices
  BY PairingAssumption DEF Calls, Registries

LEMMA RequestParts ==
    /\ \A q \in Request : q.ask \in Asks /\ q.status \in Statuses /\ q.token \in Resolves \cup {None}
    /\ \A q \in Device : q.ask \in Asks /\ q.token \in Resolves
    /\ \A m \in Memory : /\ m.requests \in [Connects -> Request \cup {None}]
                         /\ m.approved \in [Devices -> Device \cup {None}] \cup {None}
  BY DEF Request, Device, Memory

-----------------------------------------------------------------------------
(* The three ways the tables change *)

Opens(c) == rows' = [rows EXCEPT ![c] = NewRequest(c)] /\ tokens' = tokens

LEMMA OpensRows ==
    ASSUME Inv, NEW c \in Connects, at[c] = "asking", Opens(c)
    PROVE  /\ rows' \in [Connects -> Request \cup {None}]
           /\ rows[c] = None /\ rows'[c] # None
           /\ rows'[c].ask = ask[c] /\ rows'[c].status = "Pending" /\ rows'[c].token = None
           /\ \A id \in Connects \ {c} : rows'[id] = rows[id]
           /\ RowsGrow
<1>1. ask[c] \in Asks /\ rows[c] = None /\ rows \in [Connects -> Request \cup {None}]
  BY Distinct DEF Inv, TypeOK, CallInv, RowInv
<1>2. PICK q : q = NewRequest(c)
  OBVIOUS
<1>3. q \in Request /\ q.ask = ask[c] /\ q.status = "Pending" /\ q.token = None
  BY <1>1, <1>2 DEF NewRequest, Request, Statuses
<1>4. rows' = [rows EXCEPT ![c] = q]
  BY <1>2 DEF Opens
<1>. QED BY <1>1, <1>3, <1>4, Distinct DEF RowsGrow

Approves(c) ==
    /\ c \in Resolves /\ at[c] = "begun" /\ IsOpen(reg[c])
    /\ IsPending(c) /\ StillPending(c) /\ WriteApproval(c)

LEMMA ApprovesRows ==
    ASSUME Inv, NEW c \in Resolves, Approves(c)
    PROVE  /\ rows' \in [Connects -> Request \cup {None}]
           /\ tokens' \in [Devices -> Device \cup {None}]
           /\ target[c] \in Connects /\ rows[target[c]] # None /\ rows'[target[c]] # None
           /\ rows[target[c]].status = "Pending" /\ rows[target[c]].token = None
           /\ rows'[target[c]].ask = rows[target[c]].ask
           /\ rows'[target[c]].status = "Approved" /\ rows'[target[c]].token = c
           /\ \A id \in Connects \ {target[c]} : rows'[id] = rows[id]
           /\ \A id \in Connects : rows[id] # None => rows[id].token # c
           /\ RowsGrow
           /\ \E d \in Devices : /\ d = rows[target[c]].ask.device
                                 /\ tokens'[d] # None /\ tokens'[d].token = c
                                 /\ tokens'[d].ask = rows[target[c]].ask
                                 /\ \A e \in Devices \ {d} : tokens'[e] = tokens[e]
<1>. DEFINE id == target[c]
            m == memory[reg[c]]
<1>1. /\ rows \in [Connects -> Request \cup {None}] /\ tokens \in [Devices -> Device \cup {None}]
      /\ id \in Connects /\ rows[id] # None /\ rows[id] \in Request /\ rows[id].status = "Pending"
      /\ c \in Calls
  BY Distinct DEF Inv, TypeOK, CallInv, Approves, StillPending
<1>2. Remembers(m.requests[id], id) /\ m.requests[id] # None
  <2>1. reg[c] \in Registries /\ m # None
    BY <1>1, Distinct DEF Inv, CallInv, Approves, IsOpen
  <2>2. m.requests[id] # None
    BY DEF Approves, IsPending, Known, Mine
  <2>. QED BY <1>1, <2>1, <2>2 DEF Inv, MemInv, Sound
<1>3. PICK a \in Asks : a = rows[id].ask /\ a = Known(c).ask /\ a.device \in Devices
  BY <1>1, <1>2, RequestParts, Distinct DEF Remembers, Known, Mine
<1>4. PICK q : q = [rows[id] EXCEPT !.status = "Approved", !.token = c]
  OBVIOUS
<1>5. /\ q \in Request /\ q.ask = a /\ q.status = "Approved" /\ q.token = c
  BY <1>1, <1>3, <1>4 DEF Request, Statuses
<1>6. rows' = [rows EXCEPT ![id] = q]
  BY <1>1, <1>4 DEF Approves, WriteApproval
<1>7. PICK n : n = [ask |-> a, token |-> c]
  OBVIOUS
<1>8. n \in Device /\ n.ask = a /\ n.token = c
  BY <1>7 DEF Device
<1>9. tokens' = [tokens EXCEPT ![a.device] = n]
  BY <1>3, <1>7 DEF Approves, WriteApproval
<1>10. rows[id].token = None
  <2>1. rows[id].status # "Approved"
    BY <1>1
  <2>. QED BY <1>1, <2>1 DEF Inv, RowInv, Opened
<1>11. ASSUME NEW other \in Connects, rows[other] # None, rows[other].token = c PROVE FALSE
  BY <1>11, Distinct DEF Inv, RowInv, Opened, Approves
<1>12. rows' \in [Connects -> Request \cup {None}] /\ rows'[id] = q
       /\ \A other \in Connects \ {id} : rows'[other] = rows[other]
  BY <1>1, <1>5, <1>6
<1>13. /\ tokens' \in [Devices -> Device \cup {None}] /\ tokens'[a.device] = n
       /\ \A e \in Devices \ {a.device} : tokens'[e] = tokens[e]
  BY <1>1, <1>3, <1>8, <1>9
<1>14. q # None /\ n # None
  BY <1>5, <1>8, Distinct
<1>. HIDE DEF id, m
<1>15. RowsGrow
  BY <1>1, <1>3, <1>5, <1>10, <1>12, <1>14 DEF RowsGrow
<1>. USE DEF id
<1>16. \E d \in Devices : /\ d = rows[id].ask.device
                          /\ tokens'[d] # None /\ tokens'[d].token = c
                          /\ tokens'[d].ask = rows[id].ask
                          /\ \A e \in Devices \ {d} : tokens'[e] = tokens[e]
  BY <1>3, <1>8, <1>13, <1>14
<1>. QED BY <1>1, <1>3, <1>5, <1>10, <1>11, <1>12, <1>13, <1>14, <1>15, <1>16

Rejects(c) ==
    /\ c \in Resolves /\ at[c] = "begun" /\ WriteRejection(c) /\ tokens' = tokens

LEMMA RejectsRows ==
    ASSUME Inv, NEW c \in Resolves, Rejects(c)
    PROVE  /\ rows' \in [Connects -> Request \cup {None}]
           /\ target[c] \in Connects /\ rows[target[c]] # None /\ rows'[target[c]] # None
           /\ rows'[target[c]].ask = rows[target[c]].ask
           /\ rows'[target[c]].token = rows[target[c]].token
           /\ rows'[target[c]].status = IF rows[target[c]].status = "Pending" THEN "Rejected"
                                        ELSE rows[target[c]].status
           /\ \A id \in Connects \ {target[c]} : rows'[id] = rows[id]
           /\ RowsGrow
<1>1. /\ rows \in [Connects -> Request \cup {None}]
      /\ target[c] \in Connects /\ rows[target[c]] # None /\ rows[target[c]] \in Request
  BY Distinct DEF Inv, TypeOK, CallInv, Rejects
<1>2. PICK q : q = [rows[target[c]] EXCEPT !.status = IF StillPending(c) THEN "Rejected" ELSE @]
  OBVIOUS
<1>3. /\ q \in Request /\ q.ask = rows[target[c]].ask /\ q.token = rows[target[c]].token
      /\ q.status = IF rows[target[c]].status = "Pending" THEN "Rejected" ELSE rows[target[c]].status
  BY <1>1, <1>2 DEF Request, Statuses, StillPending
<1>4. rows' = [rows EXCEPT ![target[c]] = q]
  BY <1>1, <1>2 DEF Rejects, WriteRejection
<1>. QED BY <1>1, <1>3, <1>4, Distinct DEF RowsGrow

-----------------------------------------------------------------------------
(* What registries remember stays true *)

LEMMA BackingStays ==
    ASSUME RowsGrow, NEW q \in Device, Backing(q) PROVE Backing(q)'
<1>1. q.token # None
  BY RequestParts, Distinct
<1>. QED BY <1>1 DEF Backing, RowsGrow

LEMMA SoundStays ==
    ASSUME RowsGrow, NEW m \in Memory, Sound(m) PROVE Sound(m)'
<1>1. \A id \in Connects : m.requests[id] # None => Remembers(m.requests[id], id)'
  BY DEF Sound, Remembers, RowsGrow
<1>2. ASSUME m.approved # None, NEW d \in Devices, m.approved[d] # None
      PROVE  m.approved[d].ask.device = d /\ Backing(m.approved[d])'
  <2>1. m.approved[d] \in Device
    BY <1>2, RequestParts
  <2>. QED BY <1>2, <2>1, BackingStays DEF Sound
<1>. QED BY <1>1, <1>2 DEF Sound

\* A registry with a new request, once its row is written.
LEMMA SoundWithRequest ==
    ASSUME RowsGrow, NEW m \in Memory, Sound(m), NEW id \in Connects, NEW q \in Request,
           Remembers(q, id)'
    PROVE  /\ [m EXCEPT !.requests[id] = q] \in Memory
           /\ Sound([m EXCEPT !.requests[id] = q])'
<1>. DEFINE n == [m EXCEPT !.requests[id] = q]
<1>1. /\ n \in Memory /\ n.approved = m.approved
      /\ n.requests = [m.requests EXCEPT ![id] = q]
  BY DEF Memory
<1>2. /\ n.requests[id] = q /\ \A other \in Connects \ {id} : n.requests[other] = m.requests[other]
  BY <1>1, RequestParts
<1>3. Sound(m)'
  BY SoundStays
<1>. HIDE DEF n
<1>4. \A other \in Connects : n.requests[other] # None => Remembers(n.requests[other], other)'
  BY <1>2, <1>3 DEF Sound
<1>5. Sound(n)'
  BY <1>1, <1>3, <1>4 DEF Sound
<1>. QED BY <1>1, <1>5 DEF n

\* A registry that has approved a device.
LEMMA SoundWithDevice ==
    ASSUME RowsGrow, NEW m \in Memory, Sound(m), m.approved # None,
           NEW d \in Devices, NEW q \in Device, q.ask.device = d, Backing(q)'
    PROVE  /\ [m EXCEPT !.approved[d] = q] \in Memory
           /\ Sound([m EXCEPT !.approved[d] = q])'
<1>. DEFINE n == [m EXCEPT !.approved[d] = q]
<1>0. m.approved \in [Devices -> Device \cup {None}]
  BY RequestParts
<1>1. /\ n \in Memory /\ n.requests = m.requests
      /\ n.approved = [m.approved EXCEPT ![d] = q]
  BY <1>0 DEF Memory
<1>2. /\ n.approved[d] = q /\ \A e \in Devices \ {d} : n.approved[e] = m.approved[e]
  BY <1>0, <1>1
<1>3. Sound(m)'
  BY SoundStays
<1>. HIDE DEF n
<1>4. \A e \in Devices : n.approved[e] # None => n.approved[e].ask.device = e /\ Backing(n.approved[e])'
  BY <1>2, <1>3 DEF Sound
<1>5. Sound(n)'
  BY <1>1, <1>3, <1>4 DEF Sound
<1>. QED BY <1>1, <1>5 DEF n

MemoryStep ==
    /\ memory' \in [Registries -> Memory \cup {None}]
    /\ \A r \in Registries : (memory[r] # None => Sound(memory[r]))'

\* A registry is as it was, gone, or sound.
LEMMA MemoryFrom ==
    ASSUME Inv, RowsGrow, memory' \in [Registries -> Memory \cup {None}],
           \A r \in Registries : \/ memory'[r] = memory[r] \/ memory'[r] = None
                                 \/ \E m \in Memory : memory'[r] = m /\ Sound(m)'
    PROVE  MemoryStep
<1>1. memory \in [Registries -> Memory \cup {None}]
  BY DEF Inv, TypeOK
<1>2. ASSUME NEW r \in Registries, memory'[r] # None
      PROVE  \E m \in Memory : memory'[r] = m /\ Sound(m)'
  <2>1. CASE memory'[r] = memory[r]
    <3>1. PICK m \in Memory : m = memory[r] /\ Sound(m)
      BY <1>1, <1>2, <2>1 DEF Inv, MemInv
    <3>2. Sound(m)'
      BY <3>1, SoundStays
    <3>. QED BY <2>1, <3>1, <3>2
  <2>. QED BY <1>2, <2>1
<1>3. \A r \in Registries : (memory[r] # None => Sound(memory[r]))'
  BY <1>2 DEF Sound, Remembers, Backing
<1>. QED BY <1>3 DEF MemoryStep

-----------------------------------------------------------------------------
(* What steps do, as the invariants need it *)

\* What a call sees of its registry.
LEMMA MineIsSound ==
    ASSUME Inv, NEW c \in Calls, at[c] # "idle"
    PROVE  /\ reg[c] \in Registries /\ reg[c] \in {c} \cup Servers
           /\ Mine(c) \in Memory \cup {None}
           /\ Mine(c) # None => Sound(Mine(c))
<1>1. reg[c] \in {c} \cup Servers
  BY DEF Inv, CallInv
<1>2. reg[c] \in Registries
  BY <1>1, Distinct DEF Registries
<1>. QED BY <1>1, <1>2 DEF Inv, TypeOK, MemInv, Mine

Answered == {"token_required", "token_invalid", "pairing_required", "not_found",
             "Approved", "Rejected", "error"}

\* m is left of the registry n.
Keeps(m, n) ==
    n # None => /\ m # None
                /\ n.approved # None => m.approved # None
                /\ \A id \in Connects : n.requests[id] # None => m.requests[id] # None

\* A call ends with an answer that lets nobody in.
Ends(c) ==
    /\ at[c] \in {"begun", "asking", "committed"}
    /\ \E what \in Answered, token \in Resolves \cup {None}, mem \in Memory \cup {None} :
          Reply(c, what, token, mem) /\ Keeps(mem, Mine(c)) /\ (mem # None => Sound(mem)')
    /\ UNCHANGED <<input>>

\* Or with one that does.
LetsIn(c) ==
    /\ at[c] = "begun" /\ c \in Connects
    /\ IsOpen(reg[c]) /\ Paired(c)
    /\ shown[c] # None /\ shown[c] = Mine(c).approved[ask[c].device].token
    /\ Reply(c, "authorized", None, Mine(c))
    /\ UNCHANGED <<faults, disk, input>>

\* The calls that end and leave the tables alone.
LEMMA AnswersEnd ==
    ASSUME Inv, NEW c \in Calls,
           \/ Fails(c) \/ ApproveRefused(c) \/ ResolveUnknown(c) \/ ResolveSettled(c)
           \/ FindPending(c) \/ DecideByToken(c)
    PROVE  (Ends(c) \/ LetsIn(c)) /\ UNCHANGED disk /\ RowsGrow
<1>1. UNCHANGED <<disk, input>> /\ at[c] \in {"begun", "asking"}
  BY DEF Fails, ApproveRefused, ResolveUnknown, ResolveSettled, FindPending, DecideByToken,
     MayResolve
<1>2. RowsGrow
  BY <1>1 DEF RowsGrow, disk
<1>3. PICK m \in Memory \cup {None} : m = Mine(c) /\ (m # None => Sound(m))
  BY <1>1, MineIsSound
<1>4. m # None => Sound(m)'
  BY <1>2, <1>3, SoundStays
<1>5. Keeps(m, Mine(c))
  BY <1>3 DEF Keeps
<1>6. ASSUME NEW what \in Answered, NEW token \in Resolves \cup {None}, Reply(c, what, token, Mine(c))
      PROVE  Ends(c)
  BY <1>1, <1>3, <1>4, <1>5, <1>6 DEF Ends
<1>7. CASE Fails(c) \/ ApproveRefused(c)
  BY <1>1, <1>2, <1>6, <1>7 DEF Fails, ApproveRefused, Answered
<1>8. CASE ResolveUnknown(c) \/ FindPending(c)
  BY <1>1, <1>2, <1>6, <1>8 DEF ResolveUnknown, FindPending, Answered
<1>9. CASE ResolveSettled(c)
  <2>1. target[c] \in Connects /\ c \in Resolves
    BY <1>1, <1>9 DEF ResolveSettled, MayResolve, Inv, CallInv
  <2>2. m # None
    BY <1>3, <1>9 DEF ResolveSettled, MayResolve, MayWrite, IsOpen, Mine
  <2>3. Known(c) \in Request /\ Known(c).status \in {"Approved", "Rejected"}
    BY <1>3, <1>9, <2>1, <2>2, RequestParts DEF ResolveSettled, Known, Statuses
  <2>4. Known(c).status \in Answered /\ Known(c).token \in Resolves \cup {None}
    BY <2>3, RequestParts DEF Answered
  <2>. QED BY <1>1, <1>2, <1>6, <1>9, <2>4 DEF ResolveSettled
<1>10. CASE DecideByToken(c)
  <2>1. CASE shown[c] # None /\ shown[c] = Mine(c).approved[ask[c].device].token
    BY <1>1, <1>2, <1>10, <2>1 DEF DecideByToken, LetsIn
  <2>2. CASE ~(shown[c] # None /\ shown[c] = Mine(c).approved[ask[c].device].token)
    <3>1. \E what \in {"token_required", "token_invalid"} : Reply(c, what, None, Mine(c))
      BY <1>10, <2>2 DEF DecideByToken
    <3>. QED BY <1>1, <1>2, <1>6, <3>1 DEF Answered
  <2>. QED BY <2>1, <2>2
<1>. QED BY <1>7, <1>8, <1>9, <1>10

\* A request is opened, and remembered unless its row could not be read back.
LEMMA OpenEnds ==
    ASSUME Inv, NEW c \in Connects, OpenRequest(c) \/ OpenUnconfirmed(c)
    PROVE  Ends(c) /\ Opens(c) /\ at[c] = "asking"
<1>1. at[c] = "asking" /\ Opens(c) /\ IsOpen(reg[c]) /\ c \in Calls /\ UNCHANGED <<input>>
  BY Distinct DEF OpenRequest, OpenUnconfirmed, Opens, MayWrite
<1>2. PICK m \in Memory : m = Mine(c) /\ Sound(m)
  BY <1>1, MineIsSound DEF IsOpen, Mine
<1>3. RowsGrow /\ ask[c] \in Asks
  BY <1>1, OpensRows DEF Inv, CallInv
<1>4. PICK q \in Request : q = NewRequest(c) /\ q.ask = ask[c] /\ q.status = "Pending"
  <2>1. PICK q : q = NewRequest(c)
    OBVIOUS
  <2>2. q \in Request /\ q.ask = ask[c] /\ q.status = "Pending"
    BY <1>3, <2>1 DEF NewRequest, Request, Statuses
  <2>. QED BY <2>1, <2>2
<1>5. Remembers(q, c)'
  BY <1>1, <1>4, OpensRows DEF Remembers
<1>6. PICK n \in Memory : n = [m EXCEPT !.requests[c] = q] /\ Sound(n)'
  BY <1>2, <1>3, <1>5, SoundWithRequest
<1>7. Keeps(n, m)
  BY <1>6, RequestParts, Distinct DEF Keeps, Memory
<1>8. CASE OpenRequest(c)
  <2>1. Reply(c, "pairing_required", None, n)
    BY <1>2, <1>4, <1>6, <1>8 DEF OpenRequest
  <2>. QED BY <1>1, <1>2, <1>6, <1>7, <2>1 DEF Ends, Answered
<1>9. CASE OpenUnconfirmed(c)
  <2>1. Reply(c, "error", None, m)
    BY <1>2, <1>9 DEF OpenUnconfirmed
  <2>2. Sound(m)'
    BY <1>2, <1>3, SoundStays
  <2>3. Keeps(m, m)
    BY DEF Keeps
  <2>. QED BY <1>1, <1>2, <2>1, <2>2, <2>3 DEF Ends, Answered
<1>. QED BY <1>1, <1>8, <1>9

\* An approval is committed; what is answered follows, or is lost.
LEMMA ApproveForms ==
    ASSUME Inv, NEW c \in Resolves, Approve(c) \/ ApproveUnconfirmed(c)
    PROVE  /\ Approves(c) /\ UNCHANGED <<input>>
           /\ \/ /\ at' = [at EXCEPT ![c] = "committed"]
                 /\ UNCHANGED <<memory, answer, told, faults>>
              \/ Ends(c)
<1>1. Approves(c) /\ UNCHANGED <<input>> /\ c \in Calls /\ at[c] = "begun"
  BY Distinct DEF Approve, ApproveUnconfirmed, Approves, MayResolve, MayWrite
<1>2. CASE Approve(c)
  BY <1>1, <1>2 DEF Approve
<1>3. CASE ApproveUnconfirmed(c)
  <2>1. PICK m \in Memory : m = Mine(c) /\ Sound(m)
    BY <1>1, MineIsSound DEF Approves, IsOpen, Mine
  <2>2. Sound(m)'
    BY <1>1, <2>1, ApprovesRows, SoundStays
  <2>3. Keeps(m, m) /\ Reply(c, "error", None, m)
    BY <1>3, <2>1 DEF Keeps, ApproveUnconfirmed
  <2>. QED BY <1>1, <2>1, <2>2, <2>3 DEF Ends, Answered
<1>. QED BY <1>1, <1>2, <1>3

\* A call is answered what, and its registry has its request resolved so.
Settles(c, what, token) ==
    \E m \in Memory, q \in Request :
        /\ Reply(c, what, token, m) /\ m.approved # None
        /\ m.requests = [Mine(c).requests EXCEPT ![target[c]] = q] /\ q.status = what

\* The registry catches up with an approval it has committed.
LEMMA RememberEnds ==
    ASSUME Inv, NEW c \in Resolves, RememberApproval(c)
    PROVE  Ends(c) /\ UNCHANGED disk /\ RowsGrow /\ Settles(c, "Approved", c)
<1>1. at[c] = "committed" /\ UNCHANGED <<disk, input>> /\ c \in Calls
  BY Distinct DEF RememberApproval
<1>2. RowsGrow
  BY <1>1 DEF RowsGrow, disk
<1>3. PICK m \in Memory : m = Mine(c) /\ Sound(m) /\ m.approved # None
  BY <1>1, MineIsSound DEF Inv, MemInv, IsOpen, Mine
<1>4. PICK id \in Connects : /\ id = target[c] /\ rows[id] # None /\ rows[id].token = c
                             /\ m.requests[id] # None
  BY <1>1, <1>3 DEF Inv, CallInv, MemInv, Known, Mine
<1>5. m.requests[id] \in Request /\ rows[id].status = "Approved"
  BY <1>3, <1>4, RequestParts, Distinct DEF Inv, RowInv, Opened
<1>6. PICK a \in Asks : a = m.requests[id].ask /\ a = rows[id].ask /\ a.device \in Devices
  BY <1>3, <1>4, <1>5, RequestParts, Distinct DEF Sound, Remembers
<1>7. PICK n \in Device : n = [ask |-> a, token |-> c] /\ n.ask = a /\ n.token = c
  <2>1. PICK n : n = [ask |-> a, token |-> c]
    OBVIOUS
  <2>2. n \in Device /\ n.ask = a /\ n.token = c
    BY <2>1 DEF Device
  <2>. QED BY <2>1, <2>2
<1>8. Backing(n)'
  BY <1>1, <1>4, <1>6, <1>7 DEF Backing, disk
<1>9. PICK m1 \in Memory : m1 = [m EXCEPT !.approved[a.device] = n] /\ Sound(m1)'
  BY <1>2, <1>3, <1>6, <1>7, <1>8, SoundWithDevice
<1>10. /\ m1.requests = m.requests /\ m1.approved # None
  <2>1. m.approved \in [Devices -> Device \cup {None}]
    BY <1>3, RequestParts
  <2>2. m1.approved = [m.approved EXCEPT ![a.device] = n]
    BY <1>3, <1>9 DEF Memory
  <2>3. m1.approved \in [Devices -> Device \cup {None}]
    BY <2>1, <2>2
  <2>. QED BY <1>3, <1>9, <2>3, Distinct DEF Memory
<1>11. PICK q \in Request : /\ q = [m.requests[id] EXCEPT !.status = "Approved", !.token = c]
                            /\ q.ask = a /\ q.status = "Approved"
  <2>1. PICK q : q = [m.requests[id] EXCEPT !.status = "Approved", !.token = c]
    OBVIOUS
  <2>2. q \in Request /\ q.ask = a /\ q.status = "Approved"
    BY <1>5, <1>6, <2>1 DEF Request, Statuses
  <2>. QED BY <2>1, <2>2
<1>12. Remembers(q, id)'
  BY <1>1, <1>4, <1>5, <1>6, <1>11 DEF Remembers, disk
<1>13. Sound(m1)
  BY <1>1, <1>9 DEF Sound, Remembers, Backing, disk
<1>14. PICK m2 \in Memory : m2 = [m1 EXCEPT !.requests[id] = q] /\ Sound(m2)'
  BY <1>2, <1>12, <1>13, SoundWithRequest
<1>15. Keeps(m2, m)
  BY <1>10, <1>14, RequestParts, Distinct DEF Keeps, Memory
<1>16. m2 = [Mine(c) EXCEPT !.approved[Known(c).ask.device] = [ask |-> Known(c).ask, token |-> c],
                            !.requests[target[c]].status = "Approved",
                            !.requests[target[c]].token = c]
  <2>1. /\ Mine(c) = m /\ target[c] = id /\ Known(c).ask = a
        /\ m.requests \in [Connects -> Request \cup {None}]
    BY <1>3, <1>4, <1>6, RequestParts DEF Known, Mine
  <2>2. m2 = [m EXCEPT !.approved[a.device] = n, !.requests[id] = q]
    BY <1>9, <1>14
  <2>3. m2 = [m EXCEPT !.approved[a.device] = n, !.requests[id].status = "Approved",
                       !.requests[id].token = c]
    <3>1. PICK s : s = m.requests[id] /\ s \in Request
      BY <1>5
    <3>2. q = [[s EXCEPT !.status = "Approved"] EXCEPT !.token = c]
      BY <1>11, <3>1
    <3>3. PICK f \in [Connects -> Request \cup {None}] : f = m.requests
      BY <2>1
    <3>4. [f EXCEPT ![id] = q]
            = [[f EXCEPT ![id] = [f[id] EXCEPT !.status = "Approved"]]
                  EXCEPT ![id] = [[f[id] EXCEPT !.status = "Approved"] EXCEPT !.token = c]]
      BY <3>1, <3>2, <3>3
    <3>. QED BY <2>2, <3>1, <3>2, <3>3, <3>4 DEF Memory
  <2>. QED BY <1>7, <2>1, <2>3
<1>17. Reply(c, "Approved", c, m2)
  BY <1>16 DEF RememberApproval
<1>18. Settles(c, "Approved", c)
  <2>1. m2.approved = m1.approved /\ m2.requests = [m1.requests EXCEPT ![id] = q]
    BY <1>9, <1>14 DEF Memory
  <2>2. Mine(c) = m /\ target[c] = id
    BY <1>3, <1>4
  <2>3. m2.approved # None /\ m2.requests = [m.requests EXCEPT ![id] = q]
    BY <1>10, <2>1
  <2>4. m2.requests = [Mine(c).requests EXCEPT ![target[c]] = q]
    BY <2>2, <2>3
  <2>. QED BY <1>11, <1>14, <1>17, <2>3, <2>4 DEF Settles
<1>. QED BY <1>1, <1>2, <1>3, <1>14, <1>15, <1>17, <1>18 DEF Ends, Answered

\* A rejection is written where the row is still pending, and remembered either way.
LEMMA RejectEnds ==
    ASSUME Inv, NEW c \in Resolves, Reject(c) \/ RejectUnconfirmed(c)
    PROVE  /\ Ends(c) /\ Rejects(c)
           /\ Reject(c) => Settles(c, "Rejected", None)
<1>1. Rejects(c) /\ UNCHANGED <<input>> /\ c \in Calls /\ at[c] = "begun" /\ IsOpen(reg[c])
      /\ IsPending(c)
  BY Distinct DEF Reject, RejectUnconfirmed, Rejects, MayResolve, MayWrite
<1>2. PICK m \in Memory : m = Mine(c) /\ Sound(m)
  BY <1>1, MineIsSound DEF IsOpen, Mine
<1>3. RowsGrow /\ target[c] \in Connects
  BY <1>1, RejectsRows
<1>4. PICK id \in Connects : id = target[c] /\ m.requests[id] # None /\ m.requests[id] \in Request
  BY <1>1, <1>2, <1>3, RequestParts DEF IsPending, Known, Mine
<1>5. PICK q \in Request : /\ q = [m.requests[id] EXCEPT !.status = "Rejected"]
                           /\ q.ask = m.requests[id].ask /\ q.status = "Rejected"
  <2>1. PICK q : q = [m.requests[id] EXCEPT !.status = "Rejected"]
    OBVIOUS
  <2>2. q \in Request /\ q.ask = m.requests[id].ask /\ q.status = "Rejected"
    BY <1>4, <2>1 DEF Request, Statuses
  <2>. QED BY <2>1, <2>2
<1>6. rows[id] # None /\ rows[id].ask = q.ask
  BY <1>2, <1>4, <1>5 DEF Sound, Remembers
<1>7. rows'[id] # None /\ rows'[id].ask = q.ask /\ rows'[id].status # "Pending"
  BY <1>1, <1>4, <1>6, RejectsRows
<1>8. Remembers(q, id)'
  BY <1>5, <1>7 DEF Remembers
<1>9. PICK n \in Memory : n = [m EXCEPT !.requests[id] = q] /\ Sound(n)'
  BY <1>2, <1>3, <1>8, SoundWithRequest
<1>10. Keeps(n, m)
  BY <1>9, RequestParts, Distinct DEF Keeps, Memory
<1>11. CASE Reject(c)
  <2>1. n = [Mine(c) EXCEPT !.requests[target[c]].status = "Rejected"]
    BY <1>2, <1>4, <1>5, <1>9, RequestParts DEF Memory
  <2>2. Reply(c, "Rejected", None, n)
    BY <1>11, <2>1 DEF Reject
  <2>3. n.approved = m.approved /\ n.requests = [m.requests EXCEPT ![id] = q]
    BY <1>9 DEF Memory
  <2>4. m.approved # None
    BY <1>1, <1>2 DEF IsOpen, Mine
  <2>5. n.approved # None /\ n.requests = [Mine(c).requests EXCEPT ![target[c]] = q]
    BY <1>2, <1>4, <2>3, <2>4
  <2>6. Settles(c, "Rejected", None)
    BY <1>5, <1>9, <2>2, <2>5 DEF Settles
  <2>. QED BY <1>1, <1>2, <1>9, <1>10, <2>2, <2>6 DEF Ends, Answered
<1>12. CASE RejectUnconfirmed(c) /\ ~Reject(c)
  <2>1. Reply(c, "error", None, m)
    BY <1>2, <1>12 DEF RejectUnconfirmed
  <2>2. Sound(m)'
    BY <1>2, <1>3, SoundStays
  <2>3. Keeps(m, m)
    BY DEF Keeps
  <2>. QED BY <1>1, <1>2, <1>12, <2>1, <2>2, <2>3 DEF Ends, Answered
<1>. QED BY <1>1, <1>11, <1>12

-----------------------------------------------------------------------------
(* How calls, tables and registries move *)

Fresh(b) ==
    /\ at[b] = "idle" /\ at'[b] = "begun" /\ answer'[b] = answer[b]
    /\ reg'[b] \in {b} \cup Servers
    /\ b \in Connects => ask'[b] \in Asks /\ old'[b] = Issued \ Current
    /\ b \in Resolves => target'[b] \in Opened

Held(b) ==
    /\ reg'[b] = reg[b]
    /\ b \in Connects => ask'[b] = ask[b] /\ shown'[b] = shown[b] /\ old'[b] = old[b]
    /\ b \in Resolves => target'[b] = target[b]

Goes(b) ==
    \/ at'[b] = at[b] /\ answer'[b] = answer[b]
    \/ at[b] = "begun" /\ at'[b] = "asking" /\ b \in Connects /\ answer'[b] = answer[b]
    \/ at[b] = "begun" /\ at'[b] = "committed" /\ b \in Resolves /\ Approves(b)
       /\ answer'[b] = answer[b]
    \/ /\ at[b] \in {"begun", "asking", "committed"} /\ at'[b] = "done"
       /\ answer'[b] # "authorized" \/ LetsIn(b)
    \/ at[b] # "done" /\ at'[b] = "lost" /\ answer'[b] = answer[b]

Moves ==
    \A b \in Calls : \/ Fresh(b)
                     \/ at[b] = "idle" /\ at'[b] = "idle" /\ Held(b) /\ answer'[b] = answer[b]
                     \/ at[b] # "idle" /\ Held(b) /\ Goes(b)

DiskMoves ==
    \/ UNCHANGED disk
    \/ \E c \in Connects : at[c] = "asking" /\ at'[c] = "done" /\ Opens(c)
    \/ \E c \in Resolves : at'[c] \in {"committed", "done"} /\ Approves(c)
    \/ \E c \in Resolves : Rejects(c)

MemMoves ==
    /\ \A b \in Calls : memory'[b] # None =>
          \/ memory'[b] = memory[b]
          \/ at[b] # "idle" /\ (memory'[b].approved = None \/ memory'[b].approved = tokens)
             /\ UNCHANGED disk
    /\ \A b \in Resolves : at'[b] = "committed" => Keeps(memory'[reg'[b]], memory[reg'[b]])

NewTypes ==
    /\ faults' \in 0 .. MaxFaults
    /\ at' \in [Calls -> {"idle", "begun", "asking", "committed", "done", "lost"}]
    /\ reg' \in [Calls -> Registries \cup {None}]
    /\ ask' \in [Connects -> Asks \cup {None}]
    /\ shown' \in [Connects -> Resolves \cup {None}]
    /\ target' \in [Resolves -> Connects \cup {None}]
    /\ approve' \in [Resolves -> BOOLEAN]
    /\ answer' \in [Calls -> {"authorized", "token_required", "token_invalid", "pairing_required",
                              "not_found", "Approved", "Rejected", "error", None}]
    /\ told' \in [Calls -> Resolves \cup {None}]
    /\ old' \in [Connects -> SUBSET Resolves]

Good == RowsGrow /\ Moves /\ DiskMoves /\ MemMoves /\ MemoryStep /\ NewTypes

LEMMA DiskMovesGrow ==
    ASSUME Inv, DiskMoves PROVE RowsGrow
<1>1. CASE UNCHANGED disk
  BY <1>1 DEF disk, RowsGrow
<1>. QED BY <1>1, OpensRows, ApprovesRows, RejectsRows DEF DiskMoves

\* A call that ends.
LEMMA EndsIsGood ==
    ASSUME Inv, NEW c \in Calls, Ends(c) \/ LetsIn(c), DiskMoves, faults' \in 0 .. MaxFaults
    PROVE  Good
<1>1. PICK what \in Answered \cup {"authorized"}, token \in Resolves \cup {None},
           mem \in Memory \cup {None} :
        /\ Reply(c, what, token, mem) /\ Keeps(mem, Mine(c))
        /\ mem # None => Sound(mem)'
        /\ what = "authorized" => LetsIn(c)
  <2>1. CASE Ends(c)
    BY <2>1 DEF Ends, Answered
  <2>2. CASE LetsIn(c)
    <3>1. PICK m \in Memory : m = Mine(c) /\ Sound(m)
      BY <2>2, MineIsSound DEF LetsIn, IsOpen, Mine
    <3>2. Sound(m)' /\ Keeps(m, m)
      BY <3>1, DiskMovesGrow, SoundStays DEF Keeps
    <3>. QED BY <2>2, <3>1, <3>2 DEF LetsIn
  <2>. QED BY <2>1, <2>2
<1>2. /\ at[c] \in {"begun", "asking", "committed"} /\ UNCHANGED input
      /\ at' = [at EXCEPT ![c] = "done"]
      /\ answer' = [answer EXCEPT ![c] = what] /\ told' = [told EXCEPT ![c] = token]
      /\ memory' = [memory EXCEPT ![reg[c]] = IF reg[c] = c THEN None ELSE mem]
      /\ TypeOK /\ RowsGrow
  BY <1>1, DiskMovesGrow DEF Ends, LetsIn, Reply, Inv
<1>3. NewTypes
  BY <1>1, <1>2 DEF NewTypes, TypeOK, input, Answered
<1>4. Moves
  <2>1. ASSUME NEW b \in Calls PROVE Held(b)
    BY <1>2, Distinct DEF Held, input
  <2>2. ASSUME NEW b \in Calls, b # c PROVE at'[b] = at[b] /\ answer'[b] = answer[b]
    BY <1>2, <2>2 DEF TypeOK
  <2>3. at'[c] = "done" /\ answer'[c] = what
    BY <1>2 DEF TypeOK
  <2>4. Goes(c)
    BY <1>1, <1>2, <2>3 DEF Goes
  <2>. QED BY <1>2, <2>1, <2>2, <2>4 DEF Moves, Goes
<1>5. reg[c] \in {c} \cup Servers /\ reg[c] \in Registries
  BY <1>2, MineIsSound
<1>6. memory' \in [Registries -> Memory \cup {None}]
  BY <1>2, <1>5 DEF TypeOK
<1>7. MemoryStep
  BY <1>1, <1>2, <1>5, <1>6, MemoryFrom DEF TypeOK
<1>8. MemMoves
  <2>1. ASSUME NEW b \in Calls, memory'[b] # None PROVE memory'[b] = memory[b]
    <3>1. b = reg[c] => b = c
      BY <1>5, Distinct
    <3>2. b \in Registries
      BY DEF Registries
    <3>. QED BY <1>2, <1>5, <2>1, <3>1, <3>2 DEF TypeOK
  <2>2. ASSUME NEW b \in Resolves, at'[b] = "committed"
        PROVE  Keeps(memory'[reg'[b]], memory[reg'[b]])
    <3>1. b # c /\ b \in Calls /\ at[b] = "committed" /\ reg'[b] = reg[b]
      BY <1>2, <2>2, Distinct DEF TypeOK, input
    <3>2. reg[b] \in {b} \cup Servers /\ reg[b] \in Registries
      BY <3>1, MineIsSound
    <3>3. CASE reg[b] = reg[c]
      <4>1. reg[c] # c
        BY <3>1, <3>2, <3>3, Distinct
      <4>2. memory'[reg[b]] = mem
        BY <1>2, <1>5, <3>3, <4>1 DEF TypeOK
      <4>. QED BY <1>1, <3>1, <3>3, <4>2 DEF Mine
    <3>4. CASE reg[b] # reg[c]
      <4>1. memory'[reg[b]] = memory[reg[b]]
        BY <1>2, <1>5, <3>2, <3>4 DEF TypeOK
      <4>. QED BY <3>1, <4>1 DEF Keeps
    <3>. QED BY <3>3, <3>4
  <2>. QED BY <2>1, <2>2 DEF MemMoves
<1>. QED BY <1>2, <1>3, <1>4, <1>7, <1>8 DEF Good

\* A step that leaves the registries as they are.
LEMMA MemoryLeft ==
    ASSUME Inv, RowsGrow, memory' = memory, Moves
    PROVE  MemMoves /\ MemoryStep
<1>1. MemoryStep
  BY MemoryFrom DEF Inv, TypeOK
<1>2. \A m : Keeps(m, m)
  BY DEF Keeps
<1>. QED BY <1>1, <1>2 DEF MemMoves

LEMMA BeginIsGood == ASSUME Inv, NEW c \in Calls, Begin(c) PROVE Good
<1>1. UNCHANGED <<faults, disk, memory, answer, told>> /\ TypeOK
  BY DEF Begin, Inv
<1>2. PICK r \in {c} \cup Servers : /\ reg' = [reg EXCEPT ![c] = r]
                                    /\ at[c] = "idle" /\ at' = [at EXCEPT ![c] = "begun"]
  BY DEF Begin
<1>3. r \in Registries
  BY Distinct DEF Registries
<1>4. Issued \ Current \subseteq Resolves
  <2>1. \A id \in Opened : rows[id] \in Request /\ rows[id].token \in Resolves \cup {None}
    BY <1>1, RequestParts DEF TypeOK, Opened
  <2>. QED BY <2>1 DEF Issued
<1>5. CASE c \in Connects
  <2>1. PICK a \in Asks, t \in Resolves \cup {None} :
            /\ ask' = [ask EXCEPT ![c] = a] /\ shown' = [shown EXCEPT ![c] = t]
            /\ old' = [old EXCEPT ![c] = Issued \ Current]
            /\ UNCHANGED <<target, approve>>
    <3>1. PICK a \in Wanted[c], d \in Calls :
            /\ ask' = [ask EXCEPT ![c] = a] /\ shown' = [shown EXCEPT ![c] = told[d]]
            /\ old' = [old EXCEPT ![c] = Issued \ Current]
            /\ UNCHANGED <<target, approve>>
      BY <1>5, Distinct DEF Begin
    <3>2. a \in Asks /\ told[d] \in Resolves \cup {None}
      BY <1>1, <1>5 DEF Asks, TypeOK
    <3>. QED BY <3>1, <3>2
  <2>2. NewTypes
    BY <1>1, <1>2, <1>3, <1>4, <2>1 DEF NewTypes, TypeOK
  <2>3. ASSUME NEW b \in Calls, b # c PROVE Held(b) /\ at'[b] = at[b] /\ answer'[b] = answer[b]
    BY <1>1, <1>2, <2>1, <2>3 DEF Held, TypeOK
  <2>4. Fresh(c)
    BY <1>1, <1>2, <1>5, <2>1, Distinct DEF Fresh, TypeOK
  <2>. QED BY <1>1, <2>2, <2>3, <2>4, DiskMovesGrow, MemoryLeft DEF Good, Moves, Goes, DiskMoves
<1>6. CASE c \in Resolves
  <2>1. PICK id \in Opened, verdict \in BOOLEAN :
            /\ target' = [target EXCEPT ![c] = id] /\ approve' = [approve EXCEPT ![c] = verdict]
            /\ UNCHANGED <<ask, shown, old>>
    BY <1>6, Distinct DEF Begin
  <2>2. NewTypes
    BY <1>1, <1>2, <1>3, <2>1 DEF NewTypes, TypeOK, Opened
  <2>3. ASSUME NEW b \in Calls, b # c PROVE Held(b) /\ at'[b] = at[b] /\ answer'[b] = answer[b]
    BY <1>1, <1>2, <2>1, <2>3 DEF Held, TypeOK
  <2>4. Fresh(c)
    BY <1>1, <1>2, <1>6, <2>1, Distinct DEF Fresh, TypeOK
  <2>. QED BY <1>1, <2>2, <2>3, <2>4, DiskMovesGrow, MemoryLeft DEF Good, Moves, Goes, DiskMoves
<1>. QED BY <1>5, <1>6 DEF Calls

\* A call that only moves on.
LEMMA MoveIsGood ==
    ASSUME Inv, NEW c \in Calls, NEW place \in {"asking", "committed"}, at[c] = "begun",
           at' = [at EXCEPT ![c] = place], UNCHANGED <<faults, memory, input, answer, told>>,
           \/ place = "asking" /\ c \in Connects /\ UNCHANGED disk
           \/ place = "committed" /\ c \in Resolves /\ Approves(c)
    PROVE  Good
<1>1. NewTypes /\ at \in [Calls -> {"idle", "begun", "asking", "committed", "done", "lost"}]
  BY DEF NewTypes, Inv, TypeOK, input
<1>2. \A b \in Calls : Held(b) /\ answer'[b] = answer[b]
  BY DEF Held, input
<1>3. at'[c] = place /\ \A b \in Calls : b # c => at'[b] = at[b]
  BY <1>1
<1>4. Goes(c)
  BY <1>2, <1>3 DEF Goes
<1>5. Moves
  BY <1>2, <1>3, <1>4 DEF Moves, Goes
<1>6. DiskMoves
  BY <1>3 DEF DiskMoves
<1>. QED BY <1>1, <1>5, <1>6, DiskMovesGrow, MemoryLeft DEF Good

\* A registry is made.
LEMMA LoadIsGood ==
    ASSUME Inv, NEW r \in Registries, LoadRequests(r) \/ LoadTokens(r) PROVE Good
<1>1. UNCHANGED <<disk, faults, at, input, answer, told>> /\ TypeOK /\ UNCHANGED <<rows, tokens>>
  BY DEF LoadRequests, LoadTokens, Inv, disk
<1>2. NewTypes /\ RowsGrow /\ DiskMoves
  BY <1>1 DEF NewTypes, TypeOK, input, RowsGrow, DiskMoves
<1>3. Moves
  BY <1>1 DEF Moves, Held, Goes, input
<1>4. PICK m \in Memory :
        /\ memory' = [memory EXCEPT ![r] = m] /\ Sound(m)'
        /\ m.approved = None \/ m.approved = tokens
        /\ r \in Calls => at[r] # "idle"
        /\ ~IsOpen(r)
  <2>1. CASE LoadRequests(r)
    <3>. DEFINE f == [id \in Connects |-> IF rows[id] = None THEN None
                                          ELSE [rows[id] EXCEPT !.token = None]]
    <3>1. PICK m : m = [requests |-> f, approved |-> None]
      OBVIOUS
    <3>2. ASSUME NEW id \in Connects, rows[id] # None
          PROVE  \E q \in Request : /\ f[id] = q /\ q.ask = rows[id].ask
                                    /\ q.status = rows[id].status
      <4>1. rows[id] \in Request
        BY <1>1, <3>2 DEF TypeOK
      <4>2. PICK q : q = [rows[id] EXCEPT !.token = None]
        OBVIOUS
      <4>3. q \in Request /\ q.ask = rows[id].ask /\ q.status = rows[id].status
        BY <4>1, <4>2 DEF Request
      <4>. QED BY <3>2, <4>2, <4>3
    <3>3. f \in [Connects -> Request \cup {None}]
      BY <3>2
    <3>4. m \in Memory /\ m.requests = f /\ m.approved = None
      BY <3>1, <3>3 DEF Memory
    <3>5. \A id \in Connects : m.requests[id] # None => Remembers(m.requests[id], id)
      <4>1. ASSUME NEW id \in Connects, f[id] # None PROVE Remembers(f[id], id)
        <5>1. rows[id] # None
          BY <4>1
        <5>2. PICK q \in Request : f[id] = q /\ q.ask = rows[id].ask /\ q.status = rows[id].status
          BY <3>2, <5>1
        <5>. HIDE DEF f
        <5>. QED BY <5>1, <5>2 DEF Remembers
      <4>. QED BY <3>4, <4>1
    <3>6. Sound(m)
      BY <3>4, <3>5 DEF Sound
    <3>7. Sound(m)'
      BY <1>2, <3>4, <3>6, SoundStays
    <3>. QED BY <2>1, <3>1, <3>4, <3>7 DEF LoadRequests, IsOpen
  <2>2. CASE LoadTokens(r)
    <3>1. PICK n \in Memory : n = memory[r] /\ Sound(n)
      BY <1>1, <2>2 DEF LoadTokens, TypeOK, Inv, MemInv
    <3>2. tokens \in [Devices -> Device \cup {None}] /\ tokens # None
      BY <1>1, Distinct DEF TypeOK
    <3>3. PICK m : m = [n EXCEPT !.approved = tokens]
      OBVIOUS
    <3>4. m \in Memory /\ m.requests = n.requests /\ m.approved = tokens
      BY <3>2, <3>3 DEF Memory
    <3>5. Sound(m)
      BY <3>1, <3>4 DEF Sound, Inv, TokenInv
    <3>6. Sound(m)'
      BY <1>2, <3>4, <3>5, SoundStays
    <3>7. r \in Calls => at[r] # "idle"
      BY <2>2 DEF LoadTokens, Inv, MemInv
    <3>. QED BY <2>2, <3>1, <3>3, <3>4, <3>6, <3>7 DEF LoadTokens
  <2>. QED BY <2>1, <2>2
<1>5. memory' \in [Registries -> Memory \cup {None}]
  BY <1>1, <1>4 DEF TypeOK
<1>6. memory'[r] = m /\ \A s \in Registries : s # r => memory'[s] = memory[s]
  BY <1>1, <1>4 DEF TypeOK
<1>7. MemoryStep
  BY <1>2, <1>4, <1>5, <1>6, MemoryFrom
<1>8. MemMoves
  <2>1. ASSUME NEW b \in Resolves, at'[b] = "committed"
        PROVE  Keeps(memory'[reg'[b]], memory[reg'[b]])
    <3>1. b \in Calls /\ at[b] = "committed" /\ reg'[b] = reg[b]
      BY <1>1, <2>1, Distinct DEF input
    <3>2. IsOpen(reg[b]) /\ reg[b] \in Registries
      BY <3>1, MineIsSound DEF Inv, MemInv
    <3>3. memory'[reg[b]] = memory[reg[b]]
      BY <1>4, <1>6, <3>2
    <3>. QED BY <3>1, <3>3 DEF Keeps
  <2>2. \A b \in Calls : b \in Registries
    BY DEF Registries
  <2>. QED BY <1>1, <1>4, <1>6, <2>1, <2>2 DEF MemMoves
<1>. QED BY <1>2, <1>3, <1>7, <1>8 DEF Good

\* A process ends.
LEMMA CrashIsGood ==
    ASSUME Inv, NEW process \in Processes, Crash(process) PROVE Good
<1>1. /\ UNCHANGED <<disk, input, answer, told>> /\ TypeOK /\ UNCHANGED <<rows, tokens>>
      /\ memory' = [r \in Registries |-> IF r \in process THEN None ELSE memory[r]]
      /\ at' = [c \in Calls |-> IF reg[c] \in process /\ at[c] # "done" THEN "lost" ELSE at[c]]
      /\ faults < MaxFaults /\ faults' = faults + 1
  BY DEF Crash, Inv, disk, Fault
<1>2. process \subseteq Registries /\ None \notin process
  BY Distinct DEF Processes, Registries
<1>3. RowsGrow /\ DiskMoves
  BY <1>1 DEF RowsGrow, DiskMoves
<1>4. NewTypes
  <2>1. faults' \in 0 .. MaxFaults
    BY <1>1, PairingAssumption DEF TypeOK
  <2>. QED BY <1>1, <2>1 DEF NewTypes, TypeOK, input
<1>5. \A b \in Calls : at'[b] = at[b] \/ (reg[b] \in process /\ at[b] # "done" /\ at'[b] = "lost")
  BY <1>1
<1>6. Moves
  <2>1. \A b \in Calls : Held(b) /\ answer'[b] = answer[b]
    BY <1>1 DEF Held, input
  <2>2. \A b \in Calls : at[b] = "idle" => at'[b] = "idle"
    BY <1>2, <1>5 DEF Inv, CallInv
  <2>. QED BY <1>5, <2>1, <2>2 DEF Moves, Goes
<1>7. memory' \in [Registries -> Memory \cup {None}]
  BY <1>1 DEF TypeOK
<1>8. MemoryStep
  BY <1>1, <1>3, <1>7, MemoryFrom
<1>9. MemMoves
  <2>1. ASSUME NEW b \in Resolves, at'[b] = "committed"
        PROVE  Keeps(memory'[reg'[b]], memory[reg'[b]])
    <3>1. b \in Calls /\ at[b] = "committed" /\ reg'[b] = reg[b] /\ reg[b] \notin process
      BY <1>1, <1>5, <2>1, Distinct DEF input
    <3>2. reg[b] \in Registries
      BY <3>1, MineIsSound
    <3>3. memory'[reg[b]] = memory[reg[b]]
      BY <1>1, <3>1, <3>2
    <3>. QED BY <3>1, <3>3 DEF Keeps
  <2>2. \A b \in Calls : b \in Registries
    BY DEF Registries
  <2>. QED BY <1>1, <2>1, <2>2 DEF MemMoves
<1>. QED BY <1>3, <1>4, <1>6, <1>8, <1>9 DEF Good

\* Every step is good.
LEMMA NextIsGood == ASSUME Inv, Next PROVE Good
<1>0. /\ faults \in 0 .. MaxFaults /\ MaxFaults \in Nat
      /\ (UNCHANGED faults \/ Fault) => faults' \in 0 .. MaxFaults
  BY PairingAssumption DEF Inv, TypeOK, Fault
<1>1. ASSUME NEW c \in Calls, Begin(c) PROVE Good
  BY <1>1, BeginIsGood
<1>2. ASSUME NEW c \in Calls, \/ Fails(c) \/ ApproveRefused(c) \/ ResolveUnknown(c) \/ ResolveSettled(c)
                              \/ FindPending(c) \/ DecideByToken(c)
      PROVE  Good
  <2>1. faults' \in 0 .. MaxFaults
    BY <1>0, <1>2 DEF Fails, ApproveRefused, ResolveUnknown, ResolveSettled, FindPending,
       DecideByToken
  <2>. QED BY <1>2, <2>1, AnswersEnd, EndsIsGood DEF DiskMoves
<1>3. ASSUME NEW c \in Connects, AskPairing(c) PROVE Good
  BY <1>3, MoveIsGood, Distinct DEF AskPairing
<1>4. ASSUME NEW c \in Connects, OpenRequest(c) \/ OpenUnconfirmed(c) PROVE Good
  <2>1. faults' \in 0 .. MaxFaults
    BY <1>0, <1>4 DEF OpenRequest, OpenUnconfirmed
  <2>2. Ends(c) /\ Opens(c) /\ at[c] = "asking"
    BY <1>4, OpenEnds
  <2>3. at'[c] = "done" /\ c \in Calls
    BY <2>2, Distinct DEF Ends, Reply, Inv, TypeOK
  <2>. QED BY <2>1, <2>2, <2>3, EndsIsGood DEF DiskMoves
<1>5. ASSUME NEW c \in Resolves, Approve(c) \/ ApproveUnconfirmed(c) PROVE Good
  <2>1. c \in Calls /\ Approves(c)
    BY <1>5, ApproveForms, Distinct
  <2>2. CASE Ends(c)
    <3>1. faults' \in 0 .. MaxFaults
      BY <1>0, <1>5 DEF Approve, ApproveUnconfirmed
    <3>2. at'[c] = "done"
      BY <2>1, <2>2 DEF Ends, Reply, Inv, TypeOK
    <3>. QED BY <2>1, <2>2, <3>1, <3>2, EndsIsGood DEF DiskMoves
  <2>3. CASE /\ at' = [at EXCEPT ![c] = "committed"]
             /\ UNCHANGED <<memory, answer, told, faults>> /\ UNCHANGED input
    BY <2>1, <2>3, MoveIsGood DEF Approves
  <2>. QED BY <1>5, <2>2, <2>3, ApproveForms
<1>6. ASSUME NEW c \in Resolves, RememberApproval(c) PROVE Good
  <2>1. faults' \in 0 .. MaxFaults /\ c \in Calls
    BY <1>0, <1>6, Distinct DEF RememberApproval
  <2>. QED BY <1>6, <2>1, RememberEnds, EndsIsGood DEF DiskMoves
<1>7. ASSUME NEW c \in Resolves, Reject(c) \/ RejectUnconfirmed(c) PROVE Good
  <2>1. faults' \in 0 .. MaxFaults /\ c \in Calls
    BY <1>0, <1>7, Distinct DEF Reject, RejectUnconfirmed
  <2>. QED BY <1>7, <2>1, RejectEnds, EndsIsGood DEF DiskMoves
<1>8. \A c \in Connects \cup Resolves : c \in Calls
  BY DEF Calls
<1>. QED BY <1>1, <1>2, <1>3, <1>4, <1>5, <1>6, <1>7, <1>8, LoadIsGood, CrashIsGood
         DEF Next, ConnectStep, ResolveStep

-----------------------------------------------------------------------------
(* Good steps keep the invariant *)

\* What all moves have in common.
LEMMA MovesKeep ==
    ASSUME Inv, Good, NEW b \in Calls
    PROVE  /\ at'[b] \in {"idle", "begun", "asking"} => at[b] \in {"idle", "begun", "asking"}
           /\ at[b] \in {"committed", "done", "lost"} => at'[b] \in {"committed", "done", "lost"}
           /\ at[b] # "idle" => at'[b] # "idle" /\ Held(b)
           /\ at'[b] = "idle" => at[b] = "idle" /\ Held(b)
           /\ at[b] = "idle" /\ at'[b] # "idle" => Fresh(b)
  BY DEF Good, Moves, Goes, Fresh

LEMMA DiskTypes ==
    ASSUME Inv, DiskMoves
    PROVE  /\ rows' \in [Connects -> Request \cup {None}]
           /\ tokens' \in [Devices -> Device \cup {None}]
  BY OpensRows, ApprovesRows, RejectsRows DEF DiskMoves, Inv, TypeOK, disk, Opens, Rejects

LEMMA RowStep == ASSUME Inv, Good PROVE RowInv'
<1>1. ASSUME NEW id \in Connects
      PROVE  /\ at'[id] \in {"idle", "begun", "asking"} => rows'[id] = None
             /\ rows'[id] # None =>
                   /\ rows'[id].token # None <=> rows'[id].status = "Approved"
                   /\ rows'[id].token # None =>
                         /\ target'[rows'[id].token] = id
                         /\ at'[rows'[id].token] \in {"committed", "done", "lost"}
  <2>0. id \in Calls
    BY Distinct
  <2>1. CASE rows'[id] = rows[id]
    <3>1. at'[id] \in {"idle", "begun", "asking"} => rows'[id] = None
      BY <2>0, <2>1, MovesKeep DEF Inv, RowInv
    <3>2. ASSUME rows[id] # None, rows[id].token # None
          PROVE  /\ target'[rows[id].token] = id
                 /\ at'[rows[id].token] \in {"committed", "done", "lost"}
      <4>1. PICK t \in Resolves : t = rows[id].token
        BY <3>2, RequestParts DEF Inv, TypeOK
      <4>2. target[t] = id /\ at[t] \in {"committed", "done", "lost"} /\ t \in Calls
        BY <3>2, <4>1, Distinct DEF Inv, RowInv, Opened
      <4>. QED BY <4>1, <4>2, MovesKeep DEF Held
    <3>. QED BY <2>1, <3>1, <3>2 DEF Inv, RowInv, Opened
  <2>2. CASE rows'[id] # rows[id]
    <3>1. CASE \E c \in Connects : at[c] = "asking" /\ at'[c] = "done" /\ Opens(c)
      BY <2>2, <3>1, OpensRows
    <3>2. ASSUME NEW c \in Resolves, at'[c] \in {"committed", "done"}, Approves(c)
          PROVE  /\ at'[id] \notin {"idle", "begun", "asking"}
                 /\ rows'[id].token = c /\ rows'[id].status = "Approved"
                 /\ target'[c] = id
      <4>1. target[c] = id
        BY <2>2, <3>2, ApprovesRows
      <4>2. at[id] \notin {"idle", "begun", "asking"}
        BY <3>2, <4>1, ApprovesRows DEF Inv, RowInv
      <4>3. at[c] = "begun" /\ c \in Calls
        BY <3>2, Distinct DEF Approves
      <4>. QED BY <2>0, <3>2, <4>1, <4>2, <4>3, ApprovesRows, MovesKeep DEF Held
    <3>3. ASSUME NEW c \in Resolves, Rejects(c)
          PROVE  /\ at'[id] \notin {"idle", "begun", "asking"}
                 /\ rows'[id].token = None /\ rows'[id].status # "Approved"
      <4>1. target[c] = id
        BY <2>2, <3>3, RejectsRows
      <4>2. rows[id] # None /\ at[id] \notin {"idle", "begun", "asking"}
        BY <3>3, <4>1, RejectsRows DEF Inv, RowInv
      <4>3. rows[id].status = "Pending"
        <5>1. CASE rows[id].status # "Pending"
          <6>1. rows \in [Connects -> Request \cup {None}] /\ rows[id] \in Request
            BY <4>2 DEF Inv, TypeOK
          <6>2. PICK q : q = [rows[id] EXCEPT !.status = rows[id].status]
            OBVIOUS
          <6>3. q = rows[id]
            BY <6>1, <6>2 DEF Request
          <6>4. rows' = [rows EXCEPT ![id] = q]
            BY <3>3, <4>1, <5>1, <6>2 DEF Rejects, WriteRejection, StillPending
          <6>5. rows' = rows
            BY <6>1, <6>3, <6>4
          <6>. QED BY <2>2, <6>5
        <5>. QED BY <5>1
      <4>4. rows[id].token = None
        BY <4>2, <4>3 DEF Inv, RowInv, Opened
      <4>. QED BY <2>0, <3>3, <4>1, <4>2, <4>3, <4>4, RejectsRows, MovesKeep
    <3>4. ~UNCHANGED disk
      BY <2>2 DEF disk
    <3>5. \A c \in Resolves : c # None
      BY Distinct
    <3>. QED BY <3>1, <3>2, <3>3, <3>4, <3>5 DEF Good, DiskMoves
  <2>. QED BY <2>1, <2>2
<1>. QED BY <1>1 DEF RowInv, Opened

LEMMA TokenStep == ASSUME Inv, Good PROVE TokenInv'
<1>0. RowsGrow /\ tokens \in [Devices -> Device \cup {None}]
  BY DEF Good, Inv, TypeOK
<1>1. ASSUME NEW d \in Devices, tokens'[d] # None
      PROVE  \E q \in Device : tokens'[d] = q /\ q.ask.device = d /\ Backing(q)'
  <2>1. CASE tokens'[d] = tokens[d]
    <3>1. PICK q \in Device : q = tokens[d] /\ q.ask.device = d /\ Backing(q)
      BY <1>0, <1>1, <2>1 DEF Inv, TokenInv
    <3>. QED BY <1>0, <2>1, <3>1, BackingStays
  <2>2. CASE tokens'[d] # tokens[d]
    <3>1. PICK c \in Resolves : Approves(c)
      BY <2>2 DEF Good, DiskMoves, disk, Opens, Rejects
    <3>2. /\ target[c] \in Connects /\ rows'[target[c]] # None /\ rows'[target[c]].token = c
          /\ rows'[target[c]].ask = rows[target[c]].ask
          /\ d = rows[target[c]].ask.device
          /\ tokens'[d].token = c /\ tokens'[d].ask = rows[target[c]].ask
      BY <2>2, <3>1, ApprovesRows
    <3>3. PICK q \in Device : q = tokens'[d]
      BY <1>1, DiskTypes DEF Good
    <3>4. Backing(q)'
      BY <3>2, <3>3 DEF Backing
    <3>. QED BY <3>2, <3>3, <3>4
  <2>. QED BY <2>1, <2>2
<1>. QED BY <1>1 DEF TokenInv, Backing

LEMMA CallStep == ASSUME Inv, Good PROVE CallInv'
<1>1. ASSUME NEW b \in Calls
      PROVE  /\ at'[b] = "idle" <=> reg'[b] = None
             /\ at'[b] # "idle" => reg'[b] \in {b} \cup Servers
             /\ b \in Connects => at'[b] # "committed" /\ (at'[b] # "idle" => ask'[b] \in Asks)
             /\ b \in Resolves => at'[b] # "asking"
             /\ answer'[b] # None => at'[b] = "done"
  <2>1. b # None /\ None \notin Servers /\ b \in Registries
    BY Distinct DEF Calls, Registries
  <2>2. CASE Fresh(b)
    BY <2>1, <2>2 DEF Fresh, Inv, CallInv
  <2>3. CASE at[b] = "idle" /\ at'[b] = "idle" /\ Held(b) /\ answer'[b] = answer[b]
    BY <2>1, <2>3 DEF Held, Inv, CallInv
  <2>4. CASE at[b] # "idle" /\ Held(b) /\ Goes(b)
    BY <2>1, <2>4, Distinct DEF Held, Goes, Inv, CallInv
  <2>. QED BY <2>2, <2>3, <2>4 DEF Good, Moves
<1>2. ASSUME NEW c \in Resolves, at'[c] # "idle"
      PROVE  target'[c] \in Connects /\ rows'[target'[c]] # None
  <2>0. c \in Calls /\ RowsGrow
    BY Distinct DEF Good
  <2>1. target'[c] \in Connects /\ rows[target'[c]] # None
    BY <1>2, <2>0, MovesKeep DEF Fresh, Held, Opened, Inv, CallInv
  <2>. QED BY <2>0, <2>1 DEF RowsGrow
<1>3. (Connects \cup Resolves) \subseteq Calls
  BY DEF Calls
<1>. QED BY <1>1, <1>2, <1>3 DEF CallInv

LEMMA MemStep == ASSUME Inv, Good PROVE MemInv'
<1>1. \A r \in Registries : (memory[r] # None => Sound(memory[r]))'
  BY DEF Good, MemoryStep
<1>2. ASSUME NEW b \in Calls, memory'[b] # None PROVE at'[b] # "idle"
  BY <1>2, MovesKeep DEF Good, MemMoves, Inv, MemInv
<1>3. ASSUME NEW c \in Resolves, at'[c] = "committed"
      PROVE  /\ IsOpen(reg[c])' /\ Known(c)' # None
             /\ rows'[target'[c]].token = c
  <2>0. c \in Calls /\ RowsGrow /\ c # None
    BY Distinct DEF Good
  <2>1. at[c] = "committed" \/ Approves(c)
    BY <1>3, <2>0 DEF Good, Moves, Fresh, Goes
  <2>2. at[c] # "idle"
    BY <2>1 DEF Approves
  <2>3. reg'[c] = reg[c] /\ target'[c] = target[c] /\ target[c] \in Connects
    BY <2>0, <2>2, MovesKeep DEF Held, Inv, CallInv
  <2>4. IsOpen(reg[c]) /\ Known(c) # None
    BY <2>1 DEF Inv, MemInv, Approves, IsPending
  <2>5. Keeps(memory'[reg[c]], memory[reg[c]])
    BY <1>3, <2>3 DEF Good, MemMoves
  <2>6. IsOpen(reg[c])' /\ Known(c)' # None
    BY <2>3, <2>4, <2>5 DEF IsOpen, Known, Mine, Keeps
  <2>7. rows'[target'[c]].token = c
    <3>1. CASE at[c] = "committed"
      BY <2>0, <2>2, <2>3, <3>1 DEF RowsGrow, Inv, MemInv, CallInv
    <3>2. CASE Approves(c) /\ at[c] = "begun"
      BY <2>3, <3>2, ApprovesRows
    <3>. QED BY <2>1, <3>1, <3>2 DEF Approves
  <2>. QED BY <2>6, <2>7
<1>. QED BY <1>1, <1>2, <1>3 DEF MemInv

LEMMA OldStep == ASSUME Inv, Good PROVE OldInv'
<1>0. RowsGrow /\ tokens \in [Devices -> Device \cup {None}] /\ old \in [Connects -> SUBSET Resolves]
      /\ rows \in [Connects -> Request \cup {None}] /\ old' \in [Connects -> SUBSET Resolves]
  BY DEF Good, Inv, TypeOK, NewTypes
<1>1. ASSUME NEW c \in Connects
      PROVE  /\ \A t \in old'[c] : \E id \in Connects : rows[id] # None /\ rows[id].token = t
             /\ \A d \in Devices : tokens[d] # None => tokens[d].token \notin old'[c]
             /\ old'[c] = old[c] \/ memory[c] = None
  <2>0. c \in Calls
    BY Distinct
  <2>1. CASE Fresh(c)
    <3>1. old'[c] = Issued \ Current /\ memory[c] = None
      BY <2>0, <2>1 DEF Fresh, Inv, MemInv
    <3>2. \A t \in Issued : \E id \in Connects : rows[id] # None /\ rows[id].token = t
      BY DEF Issued, Opened
    <3>3. \A d \in Devices : tokens[d] # None => tokens[d].token \in Current
      BY DEF Current
    <3>. QED BY <3>1, <3>2, <3>3
  <2>2. CASE old'[c] = old[c]
    BY <2>2 DEF Inv, OldInv
  <2>. QED BY <2>0, <2>1, <2>2 DEF Good, Moves, Held
<1>2. ASSUME NEW c \in Connects, NEW t \in old'[c]
      PROVE  \E id \in Connects : rows'[id] # None /\ rows'[id].token = t
  <2>1. PICK id \in Connects : rows[id] # None /\ rows[id].token = t
    BY <1>1, <1>2
  <2>2. t # None
    BY <1>0, <1>2, Distinct
  <2>. QED BY <1>0, <2>1, <2>2 DEF RowsGrow
<1>3. ASSUME NEW c \in Connects, NEW d \in Devices, tokens'[d] # None
      PROVE  tokens'[d].token \notin old'[c]
  <2>1. CASE tokens'[d] = tokens[d]
    BY <1>1, <1>3, <2>1
  <2>2. CASE tokens'[d] # tokens[d]
    <3>1. PICK b \in Resolves : Approves(b)
      BY <2>2 DEF Good, DiskMoves, disk, Opens, Rejects
    <3>2. tokens'[d].token = b /\ \A id \in Connects : rows[id] # None => rows[id].token # b
      BY <2>2, <3>1, ApprovesRows
    <3>. QED BY <1>1, <3>2
  <2>. QED BY <2>1, <2>2
<1>4. ASSUME NEW c \in Connects, memory'[c] # None, memory'[c].approved # None,
             NEW d \in Devices, memory'[c].approved[d] # None
      PROVE  memory'[c].approved[d].token \notin old'[c]
  <2>0. c \in Calls
    BY Distinct
  <2>1. CASE memory'[c] = memory[c]
    BY <1>1, <1>4, <2>1 DEF Inv, OldInv
  <2>2. CASE memory'[c].approved = tokens
    BY <1>1, <1>4, <2>2
  <2>. QED BY <1>4, <2>0, <2>1, <2>2 DEF Good, MemMoves
<1>. QED BY <1>2, <1>3, <1>4 DEF OldInv

\* Who is let in, and who was.
LEMMA LetInStep ==
    ASSUME Inv, Good, NEW c \in Connects, answer'[c] = "authorized"
    PROVE  /\ ask'[c] = ask[c] /\ shown'[c] = shown[c] /\ old'[c] = old[c] /\ reg'[c] = reg[c]
           /\ answer[c] = "authorized" \/ LetsIn(c)
<1>0. c \in Calls /\ None # "authorized"
  BY Distinct
<1>1. CASE answer[c] = "authorized"
  <2>1. at[c] # "idle"
    BY <1>0, <1>1 DEF Inv, CallInv
  <2>. QED BY <1>0, <1>1, <2>1, MovesKeep DEF Held
<1>2. CASE answer[c] # "authorized"
  BY <1>0, <1>2 DEF Good, Moves, Fresh, Goes, Held
<1>. QED BY <1>1, <1>2

\* The device a registry lets in is one it holds approved.
LEMMA LetsInBacked ==
    ASSUME Inv, NEW c \in Connects, LetsIn(c)
    PROVE  \E id \in Connects :
              /\ rows[id] # None
              /\ rows[id].status = "Approved"
              /\ rows[id].token = shown[c]
              /\ rows[id].ask.device = ask[c].device
              /\ rows[id].ask.key = ask[c].key
              /\ rows[id].ask.role = ask[c].role
              /\ ask[c].scopes \subseteq rows[id].ask.scopes
<1>1. c \in Calls /\ at[c] # "idle" /\ IsOpen(reg[c]) /\ Paired(c)
  BY Distinct DEF LetsIn
<1>2. PICK m \in Memory : m = Mine(c) /\ Sound(m) /\ m.approved # None
  BY <1>1, MineIsSound DEF IsOpen, Mine
<1>3. PICK d \in Devices : d = ask[c].device
  BY <1>1, Distinct DEF Inv, CallInv
<1>4. m.approved[d] # None
  BY <1>1, <1>2, <1>3 DEF Paired
<1>5. PICK q \in Device : q = m.approved[d]
  BY <1>2, <1>4, RequestParts
<1>6. /\ q.ask.key = ask[c].key /\ q.ask.role = ask[c].role /\ ask[c].scopes \subseteq q.ask.scopes
  BY <1>1, <1>2, <1>3, <1>5 DEF Paired, Covers
<1>7. q.ask.device = d /\ Backing(q)
  BY <1>2, <1>4, <1>5 DEF Sound
<1>8. PICK id \in Connects : rows[id] # None /\ rows[id].token = q.token /\ rows[id].ask = q.ask
  BY <1>7 DEF Backing
<1>9. q.token # None /\ q.token = shown[c]
  BY <1>2, <1>3, <1>5, RequestParts, Distinct DEF LetsIn
<1>10. rows[id].status = "Approved"
  BY <1>8, <1>9 DEF Inv, RowInv, Opened
<1>. QED BY <1>3, <1>6, <1>7, <1>8, <1>9, <1>10

LEMMA AuthStep == ASSUME Inv, Good PROVE AuthorizedAsApproved'
<1>1. ASSUME NEW c \in Connects, answer'[c] = "authorized"
      PROVE  \E id \in Connects :
                /\ rows'[id] # None
                /\ rows'[id].status = "Approved"
                /\ rows'[id].token = shown'[c]
                /\ rows'[id].ask.device = ask'[c].device
                /\ rows'[id].ask.key = ask'[c].key
                /\ rows'[id].ask.role = ask'[c].role
                /\ ask'[c].scopes \subseteq rows'[id].ask.scopes
  <2>1. PICK id \in Connects :
              /\ rows[id] # None
              /\ rows[id].status = "Approved"
              /\ rows[id].token = shown[c]
              /\ rows[id].ask.device = ask[c].device
              /\ rows[id].ask.key = ask[c].key
              /\ rows[id].ask.role = ask[c].role
              /\ ask[c].scopes \subseteq rows[id].ask.scopes
    <3>1. CASE LetsIn(c)
      BY <3>1, LetsInBacked
    <3>2. CASE answer[c] = "authorized"
      BY <3>2 DEF Inv, AuthorizedAsApproved, Opened
    <3>. QED BY <1>1, <3>1, <3>2, LetInStep
  <2>2. rows[id].token # None
    BY <2>1 DEF Inv, RowInv, Opened
  <2>3. /\ rows'[id] # None /\ rows'[id].ask = rows[id].ask
        /\ rows'[id].token = rows[id].token /\ rows'[id].status = "Approved"
    BY <2>1, <2>2 DEF Good, RowsGrow
  <2>. QED BY <1>1, <2>1, <2>3, LetInStep
<1>. QED BY <1>1 DEF AuthorizedAsApproved, Opened

LEMMA RefusedStep == ASSUME Inv, Good PROVE SupersededTokensRefused'
<1>1. ASSUME NEW c \in Connects, answer'[c] = "authorized", reg'[c] = c
      PROVE  shown'[c] \notin old'[c]
  <2>1. shown'[c] = shown[c] /\ old'[c] = old[c] /\ reg[c] = c
    BY <1>1, LetInStep
  <2>2. CASE answer[c] = "authorized"
    BY <2>1, <2>2 DEF Inv, SupersededTokensRefused
  <2>3. CASE LetsIn(c)
    <3>1. PICK d \in Devices : d = ask[c].device
      BY <2>3, Distinct DEF LetsIn, Inv, CallInv
    <3>2. /\ memory[c] # None /\ memory[c].approved # None /\ memory[c].approved[d] # None
          /\ shown[c] = memory[c].approved[d].token
      BY <2>1, <2>3, <3>1 DEF LetsIn, IsOpen, Paired, Mine
    <3>. QED BY <2>1, <3>2 DEF Inv, OldInv
  <2>. QED BY <1>1, <2>2, <2>3, LetInStep
<1>. QED BY <1>1 DEF SupersededTokensRefused

LEMMA TypeStep == ASSUME Inv, Good PROVE TypeOK'
  BY DiskTypes DEF Good, NewTypes, MemoryStep, TypeOK

-----------------------------------------------------------------------------
(* The invariant *)

LEMMA InitInv == ASSUME Init PROVE Inv
<1>1. TypeOK
  BY PairingAssumption DEF Init, TypeOK, Unloaded, NoDevices
<1>2. \A id \in Connects : rows[id] = None /\ old[id] = {}
  BY DEF Init, Unloaded
<1>3. \A d \in Devices : tokens[d] = None
  BY DEF Init, NoDevices
<1>4. \A c \in Calls : at[c] = "idle" /\ reg[c] = None /\ answer[c] = None
  BY DEF Init
<1>5. \A r \in Registries : memory[r] = None
  BY DEF Init
<1>6. RowInv /\ TokenInv /\ OldInv
  BY <1>2, <1>3, <1>4, <1>5, Distinct DEF RowInv, Opened, TokenInv, OldInv
<1>7. CallInv /\ MemInv
  <2>1. CallInv
    BY <1>4, Distinct DEF CallInv
  <2>2. \A c \in Calls : c \in Registries
    BY DEF Registries
  <2>. QED BY <1>4, <1>5, <2>1, <2>2, Distinct DEF MemInv
<1>8. AuthorizedAsApproved /\ SupersededTokensRefused
  BY <1>4, Distinct DEF AuthorizedAsApproved, SupersededTokensRefused
<1>. QED BY <1>1, <1>6, <1>7, <1>8 DEF Inv

LEMMA StepInv == ASSUME Inv, [Next]_vars PROVE Inv'
<1>1. CASE Next
  <2>1. Good
    BY <1>1, NextIsGood
  <2>. QED BY <2>1, TypeStep, RowStep, TokenStep, CallStep, MemStep, OldStep, AuthStep,
              RefusedStep DEF Inv
<1>2. CASE UNCHANGED vars
  <2>1. UNCHANGED <<rows, tokens, memory, faults, at, reg, ask, shown, target, approve, answer,
                    told, old>>
    BY <1>2 DEF vars, disk, input
  <2>2. TypeOK' /\ AuthorizedAsApproved' /\ SupersededTokensRefused'
    BY <2>1 DEF Inv, TypeOK, AuthorizedAsApproved, SupersededTokensRefused, Opened
  <2>3. RowInv' /\ TokenInv' /\ CallInv' /\ OldInv'
    BY <2>1 DEF Inv, RowInv, Opened, TokenInv, Backing, CallInv, OldInv
  <2>4. MemInv'
    BY <2>1 DEF Inv, MemInv, Sound, Remembers, Backing, IsOpen, Known, Mine
  <2>. QED BY <2>2, <2>3, <2>4 DEF Inv
<1>. QED BY <1>1, <1>2

LEMMA Invariance == Spec => []Inv
<1>1. Init => Inv
  BY InitInv
<1>2. Inv /\ [Next]_vars => Inv'
  BY StepInv
<1>. QED BY <1>1, <1>2, PTL DEF Spec

-----------------------------------------------------------------------------

\* Tables, registries and calls keep their types, whatever fails and whichever process
\* ends (control_plane.rs:1159, persistence.rs:640).
THEOREM TypeCorrect == Spec => []TypeOK
<1>1. Inv => TypeOK
  BY DEF Inv
<1>. QED BY <1>1, Invariance, PTL

\* For any number of registries: what one of them takes for asked, approved or resolved
\* is so in the tables (control_plane.rs:1275, control_plane.rs:1391).
THEOREM MemoryBacked == Spec => []MemoryIsBacked
<1>1. ASSUME Inv PROVE MemoryIsBacked
  <2>1. ASSUME NEW r \in Registries, memory[r] # None, NEW id \in Connects,
               memory[r].requests[id] # None
        PROVE  Remembers(memory[r].requests[id], id)
    BY <1>1, <2>1 DEF Inv, MemInv, Sound
  <2>2. ASSUME NEW r \in Registries, memory[r] # None, memory[r].approved # None,
               NEW d \in Devices, memory[r].approved[d] # None
        PROVE  Backing(memory[r].approved[d])
    BY <1>1, <2>2 DEF Inv, MemInv, Sound
  <2>. QED BY <2>1, <2>2 DEF MemoryIsBacked, Remembers, Backing, Opened, IsOpen
<1>. QED BY <1>1, Invariance, PTL

\* A device is let in only as it was approved, by a registry that is behind too: what a
\* registry holds approved is backed by an approved request (control_plane.rs:1216).
THEOREM AuthorizedApproved == Spec => []AuthorizedAsApproved
<1>1. Inv => AuthorizedAsApproved
  BY DEF Inv
<1>. QED BY <1>1, Invariance, PTL

\* The gateway's registries are read after the request came in, so a token that had been
\* replaced by then is in none of them (gateway/control.rs:731).
THEOREM SupersededRefused == Spec => []SupersededTokensRefused
<1>1. Inv => SupersededTokensRefused
  BY DEF Inv
<1>. QED BY <1>1, Invariance, PTL

-----------------------------------------------------------------------------
(* The tables implement the ledger *)

LEMMA LedgerInit == ASSUME Init PROVE Ledger!Init
  BY DEF Init, Unloaded, NoDevices, Ledger!Init

Status == [id \in Connects |-> IF rows[id] = None THEN None ELSE rows[id].status]
Asked == [id \in Connects |-> IF rows[id] = None THEN None ELSE rows[id].ask.device]
IssuedTo == [id \in Connects |-> IF rows[id] = None THEN None ELSE rows[id].token]
Valid == [d \in Devices |-> IF tokens[d] = None THEN None ELSE tokens[d].token]

LEMMA OpenIsOpen ==
    ASSUME Inv, NEW c \in Connects, at[c] = "asking", Opens(c)
    PROVE  \E d \in Devices : Ledger!OpenRequest(c, d)
<1>1. /\ rows[c] = None /\ rows'[c] # None
      /\ rows'[c].ask = ask[c] /\ rows'[c].status = "Pending" /\ rows'[c].token = None
      /\ \A id \in Connects \ {c} : rows'[id] = rows[id]
      /\ tokens' = tokens
  BY OpensRows DEF Opens
<1>2. Status[c] = None
  BY <1>1 DEF Status
<1>3. Status' = [Status EXCEPT ![c] = "Pending"]
  BY <1>1 DEF Status
<1>4. PICK d \in Devices : d = ask[c].device
  BY Distinct DEF Inv, CallInv
<1>5. Asked' = [Asked EXCEPT ![c] = d]
  BY <1>1, <1>4 DEF Asked
<1>6. IssuedTo' = IssuedTo
  BY <1>1 DEF IssuedTo
<1>7. Valid' = Valid
  BY <1>1 DEF Valid
<1>. QED BY <1>2, <1>3, <1>5, <1>6, <1>7
         DEF Ledger!OpenRequest, Status, Asked, IssuedTo, Valid

LEMMA ApproveIsApprove ==
    ASSUME Inv, NEW c \in Resolves, Approves(c)
    PROVE  \E id \in Connects : Ledger!Approve(id, c)
<1>1. PICK id \in Connects, d \in Devices :
         /\ id = target[c]
         /\ rows[id] # None /\ rows'[id] # None
         /\ rows[id].status = "Pending" /\ rows[id].token = None
         /\ rows'[id].ask = rows[id].ask
         /\ rows'[id].status = "Approved" /\ rows'[id].token = c
         /\ \A other \in Connects \ {id} : rows'[other] = rows[other]
         /\ \A other \in Connects : rows[other] # None => rows[other].token # c
         /\ d = rows[id].ask.device
         /\ tokens'[d] # None /\ tokens'[d].token = c
         /\ \A e \in Devices \ {d} : tokens'[e] = tokens[e]
  BY ApprovesRows
<1>2. Status[id] = "Pending" /\ Asked[id] = d
  BY <1>1 DEF Status, Asked
<1>3. \A other \in Connects : IssuedTo[other] # c
  BY <1>1, Distinct DEF IssuedTo
<1>4. Status' = [Status EXCEPT ![id] = "Approved"]
  BY <1>1 DEF Status
<1>5. IssuedTo' = [IssuedTo EXCEPT ![id] = c]
  BY <1>1 DEF IssuedTo
<1>6. Valid' = [Valid EXCEPT ![d] = c]
  BY <1>1 DEF Valid
<1>7. Asked' = Asked
  BY <1>1 DEF Asked
<1>8. Valid' = [Valid EXCEPT ![Asked[id]] = c]
  BY <1>2, <1>6
<1>9. Ledger!Approve(id, c)
  BY <1>2, <1>3, <1>4, <1>5, <1>7, <1>8 DEF Ledger!Approve, Status, Asked, IssuedTo, Valid
<1>. QED BY <1>9

\* A rejection that comes too late changes nothing.
LEMMA RejectIsReject ==
    ASSUME Inv, NEW c \in Resolves, Rejects(c)
    PROVE  (\E id \in Connects : Ledger!Reject(id)) \/ UNCHANGED Ledger!vars
<1>1. PICK id \in Connects :
         /\ id = target[c]
         /\ rows[id] # None /\ rows'[id] # None
         /\ rows'[id].ask = rows[id].ask
         /\ rows'[id].token = rows[id].token
         /\ rows'[id].status = IF rows[id].status = "Pending" THEN "Rejected" ELSE rows[id].status
         /\ \A other \in Connects \ {id} : rows'[other] = rows[other]
         /\ tokens' = tokens
  BY RejectsRows DEF Rejects
<1>2. Asked' = Asked
  BY <1>1 DEF Asked
<1>3. IssuedTo' = IssuedTo
  BY <1>1 DEF IssuedTo
<1>4. Valid' = Valid
  BY <1>1 DEF Valid
<1>5. CASE rows[id].status = "Pending"
  <2>1. Status[id] = "Pending" /\ Status' = [Status EXCEPT ![id] = "Rejected"]
    BY <1>1, <1>5 DEF Status
  <2>. QED BY <1>1, <1>2, <1>3, <1>4, <2>1 DEF Ledger!Reject, Status, Asked, IssuedTo, Valid
<1>6. CASE rows[id].status # "Pending"
  <2>1. Status' = Status
    BY <1>1, <1>6 DEF Status
  <2>. QED BY <1>1, <1>2, <1>3, <1>4, <2>1 DEF Ledger!vars, Status, Asked, IssuedTo, Valid
<1>. QED BY <1>5, <1>6

LEMMA LedgerStep == ASSUME Inv, [Next]_vars PROVE [Ledger!Next]_(Ledger!vars)
<1>1. CASE UNCHANGED disk
  <2>1. UNCHANGED <<rows, tokens>>
    BY <1>1 DEF disk
  <2>. QED BY <2>1 DEF Ledger!vars
<1>2. CASE ~UNCHANGED disk
  <2>1. DiskMoves
    BY <1>2, NextIsGood DEF Good, vars
  <2>2. ASSUME NEW c \in Connects, at[c] = "asking", Opens(c) PROVE Ledger!Next
    BY <2>2, OpenIsOpen DEF Ledger!Next
  <2>3. ASSUME NEW c \in Resolves, Approves(c) PROVE Ledger!Next
    BY <2>3, ApproveIsApprove DEF Ledger!Next
  <2>4. ASSUME NEW c \in Resolves, Rejects(c) PROVE [Ledger!Next]_(Ledger!vars)
    BY <2>4, RejectIsReject DEF Ledger!Next
  <2>. QED BY <1>2, <2>1, <2>2, <2>3, <2>4 DEF DiskMoves
<1>. QED BY <1>1, <1>2

\* The tables are one pairing authority for any number of registries, crashes and lost
\* answers: each request is opened and resolved once, each approval issues one token, and
\* a device's token is that of its latest approval (persistence.rs:921, control_plane.rs:1483).
THEOREM TablesImplementLedger == Spec => ImplementsLedger
<1>1. Init => Ledger!Init
  BY LedgerInit
<1>2. Inv /\ [Next]_vars => [Ledger!Next]_(Ledger!vars)
  BY LedgerStep
<1>. QED BY <1>1, <1>2, Invariance, PTL DEF Spec, ImplementsLedger, Ledger!Spec

-----------------------------------------------------------------------------
(* Where a rejection stands: one registry, and no statement that fails *)

\* Every call so far runs on the registry of the server v.
OnServer(v) == \A c \in Calls : reg[c] \in {v, None}

\* The server's registry knows every row as it is, but for an approval that is committed
\* and not yet remembered; and what was answered rejected is rejected on disk.
Settling(id) == \E c \in Resolves : at[c] = "committed" /\ target[c] = id

KnowsRow(m, id) ==
    m.requests[id] # None /\ (m.requests[id].status = rows[id].status \/ Settling(id))

UpToDate(v) ==
    /\ faults = 0
    /\ IsOpen(v) \/ \A c \in Calls : at[c] = "idle"
    /\ memory[v] # None => \A id \in Connects : rows[id] # None => KnowsRow(memory[v], id)
    /\ \A c \in Resolves : answer[c] = "Rejected" => rows[target[c]].status = "Rejected"

\* A call under way runs on the open registry of the server.
LEMMA RunsOnServer ==
    ASSUME Inv, NEW v \in Servers, OnServer(v), UpToDate(v), NEW c \in Calls, at[c] # "idle"
    PROVE  /\ reg[c] = v /\ v # c /\ v \in Registries /\ IsOpen(v) /\ Mine(c) = memory[v]
           /\ memory[v] \in Memory /\ memory[v].requests \in [Connects -> Request \cup {None}]
           /\ \A id \in Connects : rows[id] # None => KnowsRow(memory[v], id)
<1>1. reg[c] = v
  BY DEF OnServer, Inv, CallInv
<1>2. v # c /\ v \in Registries /\ IsOpen(v)
  BY Distinct DEF UpToDate
<1>3. memory[v] \in Memory
  BY <1>2 DEF Inv, TypeOK, IsOpen
<1>. QED BY <1>1, <1>2, <1>3, RequestParts DEF UpToDate, IsOpen, Mine

\* An answer leaves mem in the registry and everything of the other calls alone.
LEMMA ReplyOnServer ==
    ASSUME Inv, NEW v \in Servers, OnServer(v), UpToDate(v), NEW c \in Calls, at[c] # "idle",
           NEW what, NEW token, NEW mem, Reply(c, what, token, mem)
    PROVE  /\ memory'[v] = mem
           /\ at'[c] = "done" /\ answer'[c] = what
           /\ \A b \in Calls \ {c} : at'[b] = at[b] /\ answer'[b] = answer[b]
<1>1. reg[c] = v /\ v # c /\ v \in Registries
  BY RunsOnServer
<1>. QED BY <1>1 DEF Reply, Inv, TypeOK

\* A call that ends keeps the registry up to date if what it leaves there is.
LEMMA EndUpToDate ==
    ASSUME Inv, NEW v \in Servers, OnServer(v), UpToDate(v), NEW c \in Calls, at[c] # "idle",
           NEW what, NEW token, NEW mem, Reply(c, what, token, mem),
           mem # None, mem.approved # None, faults' = faults, UNCHANGED input,
           \A id \in Connects : rows'[id] # None =>
              /\ mem.requests[id] # None
              /\ \/ mem.requests[id].status = rows'[id].status
                 \/ \E b \in Resolves \ {c} : at[b] = "committed" /\ target[b] = id,
           \A id \in Connects : rows[id] # None /\ rows[id].status = "Rejected" =>
              rows'[id].status = "Rejected",
           c \in Resolves /\ what = "Rejected" => rows'[target[c]].status = "Rejected"
    PROVE  UpToDate(v)'
<1>1. /\ memory'[v] = mem /\ at'[c] = "done" /\ answer'[c] = what
      /\ \A b \in Calls \ {c} : at'[b] = at[b] /\ answer'[b] = answer[b]
      /\ target' = target
  BY ReplyOnServer DEF input
<1>2. IsOpen(v)'
  BY <1>1 DEF IsOpen
<1>3. ASSUME NEW id \in Connects, rows'[id] # None PROVE KnowsRow(memory[v], id)'
  <2>1. ASSUME NEW b \in Resolves \ {c}, at[b] = "committed", target[b] = id
        PROVE  Settling(id)'
    BY <1>1, <2>1, Distinct DEF Settling
  <2>2. mem.requests[id].status = rows'[id].status \/ Settling(id)'
    BY <1>3, <2>1
  <2>. QED BY <1>1, <1>3, <2>2 DEF KnowsRow
<1>4. ASSUME NEW b \in Resolves, answer'[b] = "Rejected" PROVE rows'[target'[b]].status = "Rejected"
  <2>1. CASE b = c
    BY <1>1, <1>4, <2>1
  <2>2. CASE b # c
    <3>1. answer[b] = "Rejected" /\ b \in Calls
      BY <1>1, <1>4, <2>2, Distinct
    <3>2. target[b] \in Connects /\ rows[target[b]] # None
      <4>1. at[b] # "idle"
        BY <3>1, Distinct DEF Inv, CallInv, Statuses
      <4>. QED BY <3>1, <4>1 DEF Inv, CallInv
    <3>. QED BY <1>1, <3>1, <3>2 DEF UpToDate
  <2>. QED BY <2>1, <2>2
<1>5. (faults = 0)'
  BY DEF UpToDate
<1>. QED BY <1>2, <1>3, <1>4, <1>5 DEF UpToDate

\* A registry whose requests are not locked knows every row as it is.
LEMMA KnownAsWritten ==
    ASSUME Inv, NEW v \in Servers, OnServer(v), UpToDate(v), NEW c \in Calls, at[c] # "idle",
           ~Locked(reg[c]), NEW id \in Connects, rows[id] # None
    PROVE  /\ Mine(c).requests[id] # None
           /\ Mine(c).requests[id].status = rows[id].status
<1>1. Mine(c) = memory[v] /\ KnowsRow(memory[v], id) /\ reg[c] = v
  BY RunsOnServer
<1>2. ~Settling(id)
  <2>1. ASSUME NEW b \in Resolves, at[b] = "committed" PROVE FALSE
    <3>1. b \in Calls /\ at[b] # "idle"
      BY <2>1, Distinct
    <3>2. reg[b] = v
      BY <3>1, RunsOnServer
    <3>. QED BY <1>1, <2>1, <3>1, <3>2 DEF Locked
  <2>. QED BY <2>1 DEF Settling
<1>. QED BY <1>1, <1>2 DEF KnowsRow

\* The calls that end and leave tables and registry alone.
LEMMA AnswersUpToDate ==
    ASSUME Inv, MaxFaults = 0, NEW v \in Servers, OnServer(v), UpToDate(v), NEW c \in Calls,
           \/ ApproveRefused(c) \/ ResolveUnknown(c) \/ ResolveSettled(c)
           \/ FindPending(c) \/ DecideByToken(c)
    PROVE  UpToDate(v)'
<1>1. /\ UNCHANGED <<faults, disk, input>> /\ at[c] \in {"begun", "asking"}
  BY DEF ApproveRefused, ResolveUnknown, ResolveSettled, FindPending, DecideByToken, MayResolve
<1>2. rows' = rows /\ at[c] # "idle" /\ at[c] # "committed" /\ UNCHANGED input
  BY <1>1 DEF disk
<1>3. PICK m : m = Mine(c) /\ m # None /\ m.approved # None
  BY <1>2, RunsOnServer DEF IsOpen
<1>4. ASSUME NEW id \in Connects, rows'[id] # None
      PROVE  /\ m.requests[id] # None
             /\ \/ m.requests[id].status = rows'[id].status
                \/ \E b \in Resolves \ {c} : at[b] = "committed" /\ target[b] = id
  <2>1. KnowsRow(m, id)
    BY <1>2, <1>3, <1>4, RunsOnServer
  <2>. QED BY <1>2, <2>1 DEF KnowsRow, Settling
<1>5. \A id \in Connects : rows[id] # None /\ rows[id].status = "Rejected" =>
         rows'[id].status = "Rejected"
  BY <1>2
<1>6. ASSUME NEW what, NEW token, Reply(c, what, token, m),
             c \in Resolves /\ what = "Rejected" => rows'[target[c]].status = "Rejected"
      PROVE  UpToDate(v)'
  BY <1>1, <1>2, <1>3, <1>4, <1>5, <1>6, EndUpToDate
<1>7. CASE ResolveSettled(c)
  <2>1. /\ c \in Resolves /\ Known(c) # None /\ ~Locked(reg[c])
        /\ Reply(c, Known(c).status, Known(c).token, m)
    BY <1>3, <1>7 DEF ResolveSettled, MayResolve, MayWrite
  <2>2. target[c] \in Connects /\ rows[target[c]] # None
    BY <1>2, <2>1 DEF Inv, CallInv
  <2>3. Known(c).status = rows'[target[c]].status
    BY <1>2, <2>1, <2>2, KnownAsWritten DEF Known
  <2>. QED BY <1>6, <2>1, <2>3
<1>8. CASE ApproveRefused(c) \/ ResolveUnknown(c) \/ FindPending(c) \/ DecideByToken(c)
  <2>1. \E what \in {"error", "not_found", "pairing_required", "token_required", "authorized",
                     "token_invalid"} : Reply(c, what, None, m)
    BY <1>3, <1>8 DEF ApproveRefused, ResolveUnknown, FindPending, DecideByToken
  <2>. QED BY <1>6, <2>1
<1>. QED BY <1>7, <1>8

\* A request is opened on disk and in the registry.
LEMMA OpenUpToDate ==
    ASSUME Inv, NEW v \in Servers, OnServer(v), UpToDate(v), NEW c \in Connects, OpenRequest(c)
    PROVE  UpToDate(v)'
<1>1. /\ c \in Calls /\ at[c] = "asking" /\ Opens(c) /\ faults' = faults /\ UNCHANGED input
      /\ ~Locked(reg[c])
  BY Distinct DEF OpenRequest, Opens, MayWrite
<1>2. PICK m \in Memory : /\ m = Mine(c) /\ m.approved # None
                          /\ m.requests \in [Connects -> Request \cup {None}]
  BY <1>1, RunsOnServer DEF IsOpen
<1>3. PICK q : q = NewRequest(c)
  OBVIOUS
<1>4. PICK n : n = [m EXCEPT !.requests[c] = q]
  OBVIOUS
<1>5. /\ n.approved = m.approved /\ n.requests = [m.requests EXCEPT ![c] = q]
  BY <1>4 DEF Memory
<1>6. n.requests[c] = q /\ \A id \in Connects \ {c} : n.requests[id] = m.requests[id]
  BY <1>2, <1>5
<1>7. q # None /\ q.status = "Pending"
  <2>1. q.status = "Pending"
    BY <1>3 DEF NewRequest
  <2>2. q = rows'[c] /\ rows'[c] # None
    BY <1>1, <1>3, OpensRows DEF Opens, Inv, TypeOK
  <2>. QED BY <2>1, <2>2
<1>8. rows'[c].status = "Pending" /\ rows[c] = None /\ \A id \in Connects \ {c} : rows'[id] = rows[id]
  BY <1>1, OpensRows
<1>9. ASSUME NEW id \in Connects, rows'[id] # None
      PROVE  n.requests[id] # None /\ n.requests[id].status = rows'[id].status
  <2>1. CASE id = c
    BY <1>6, <1>7, <1>8, <2>1
  <2>2. CASE id # c
    BY <1>1, <1>2, <1>6, <1>8, <1>9, <2>2, KnownAsWritten
  <2>. QED BY <2>1, <2>2
<1>10. \A id \in Connects : rows[id] # None /\ rows[id].status = "Rejected" =>
          rows'[id].status = "Rejected"
  BY <1>8
<1>11. Reply(c, "pairing_required", None, n)
  BY <1>2, <1>3, <1>4 DEF OpenRequest
<1>12. n # None
  <2>1. q \in Request
    <3>1. ask[c] \in Asks
      BY <1>1 DEF Inv, CallInv
    <3>. QED BY <1>3, <3>1 DEF NewRequest, Request, Statuses
  <2>2. n \in Memory
    BY <1>2, <1>4, <2>1 DEF Memory
  <2>. QED BY <2>2, Distinct
<1>. QED BY <1>1, <1>2, <1>5, <1>9, <1>10, <1>11, <1>12, EndUpToDate

\* An approval is committed: until it is remembered the registry's requests are locked.
LEMMA ApproveUpToDate ==
    ASSUME Inv, NEW v \in Servers, OnServer(v), UpToDate(v), NEW c \in Resolves, Approve(c)
    PROVE  UpToDate(v)'
<1>1. /\ c \in Calls /\ at[c] = "begun" /\ Approves(c) /\ UNCHANGED <<faults, memory, answer>>
      /\ target' = target /\ at' = [at EXCEPT ![c] = "committed"]
  BY Distinct, ApproveForms DEF Approve, MayResolve, input
<1>2. /\ at'[c] = "committed" /\ \A b \in Calls \ {c} : at'[b] = at[b]
      /\ memory[v] # None /\ IsOpen(v) /\ memory' = memory
  BY <1>1, RunsOnServer, Distinct DEF Inv, TypeOK, IsOpen
<1>3. /\ target[c] \in Connects /\ rows[target[c]].status = "Pending" /\ rows[target[c]] # None
      /\ \A id \in Connects \ {target[c]} : rows'[id] = rows[id]
  BY <1>1, ApprovesRows
<1>4. ASSUME NEW id \in Connects, rows'[id] # None PROVE KnowsRow(memory[v], id)'
  <2>1. rows[id] # None
    BY <1>3, <1>4
  <2>2. KnowsRow(memory[v], id)
    BY <1>1, <2>1, RunsOnServer
  <2>3. CASE id = target[c]
    <3>1. Settling(id)'
      BY <1>1, <1>2, <2>3 DEF Settling
    <3>. QED BY <1>2, <2>2, <3>1 DEF KnowsRow
  <2>4. CASE id # target[c]
    <3>1. ASSUME NEW b \in Resolves, at[b] = "committed", target[b] = id PROVE Settling(id)'
      BY <1>1, <1>2, <3>1, Distinct DEF Settling
    <3>2. Settling(id) => Settling(id)'
      BY <3>1 DEF Settling
    <3>. QED BY <1>2, <1>3, <2>2, <2>4, <3>2 DEF KnowsRow
  <2>. QED BY <2>3, <2>4
<1>5. ASSUME NEW b \in Resolves, answer'[b] = "Rejected" PROVE rows'[target'[b]].status = "Rejected"
  <2>1. answer[b] = "Rejected" /\ rows[target[b]].status = "Rejected" /\ b \in Calls
    BY <1>1, <1>5, Distinct DEF UpToDate
  <2>2. at[b] # "idle"
    BY <2>1, Distinct DEF Inv, CallInv, Statuses
  <2>3. target[b] \in Connects /\ target[b] # target[c]
    BY <1>3, <2>1, <2>2 DEF Inv, CallInv
  <2>. QED BY <1>1, <1>3, <2>1, <2>3
<1>6. IsOpen(v)' /\ (faults = 0)'
  BY <1>1, <1>2 DEF IsOpen, UpToDate
<1>. QED BY <1>4, <1>5, <1>6 DEF UpToDate

\* The registry has resolved a request as its row is, and knew the other rows.
LEMMA SettlesUpToDate ==
    ASSUME Inv, NEW v \in Servers, OnServer(v), UpToDate(v), NEW c \in Resolves,
           at[c] # "idle", NEW what, NEW token, Settles(c, what, token),
           UNCHANGED <<faults, input>>,
           rows'[target[c]].status = what,
           \A id \in Connects \ {target[c]} : rows'[id] = rows[id],
           rows[target[c]].status = "Rejected" => what = "Rejected"
    PROVE  UpToDate(v)'
<1>1. PICK n \in Memory, q \in Request :
         /\ Reply(c, what, token, n) /\ n.approved # None
         /\ n.requests = [Mine(c).requests EXCEPT ![target[c]] = q] /\ q.status = what
  BY DEF Settles
<1>2. /\ c \in Calls /\ target[c] \in Connects /\ n # None /\ q # None
      /\ Mine(c) = memory[v] /\ Mine(c).requests \in [Connects -> Request \cup {None}]
  BY Distinct, RunsOnServer DEF Inv, CallInv
<1>3. /\ n.requests[target[c]] = q
      /\ \A id \in Connects \ {target[c]} : n.requests[id] = Mine(c).requests[id]
  BY <1>1, <1>2
<1>4. ASSUME NEW id \in Connects, rows'[id] # None
      PROVE  /\ n.requests[id] # None
             /\ \/ n.requests[id].status = rows'[id].status
                \/ \E b \in Resolves \ {c} : at[b] = "committed" /\ target[b] = id
  <2>1. CASE id = target[c]
    BY <1>1, <1>2, <1>3, <2>1
  <2>2. CASE id # target[c]
    <3>1. rows'[id] = rows[id] /\ KnowsRow(Mine(c), id)
      BY <1>2, <1>4, <2>2, RunsOnServer
    <3>. QED BY <1>3, <2>2, <3>1 DEF KnowsRow, Settling
  <2>. QED BY <2>1, <2>2
<1>5. \A id \in Connects : rows[id] # None /\ rows[id].status = "Rejected" =>
         rows'[id].status = "Rejected"
  OBVIOUS
<1>. QED BY <1>1, <1>2, <1>4, <1>5, EndUpToDate

\* A registry is made or a call begins: no row changes, and no answer.
LEMMA BeginUpToDate ==
    ASSUME Inv, NEW v \in Servers, OnServer(v), OnServer(v)', UpToDate(v),
           NEW c \in Calls, Begin(c)
    PROVE  UpToDate(v)'
<1>1. /\ UNCHANGED <<faults, rows, memory, answer>> /\ at[c] = "idle"
      /\ at' = [at EXCEPT ![c] = "begun"]
  BY DEF Begin, disk
<1>2. PICK r \in {c} \cup {w \in Servers : IsOpen(w)} : reg' = [reg EXCEPT ![c] = r]
  BY DEF Begin
<1>3. IsOpen(v)
  <2>1. reg'[c] = r
    BY <1>2 DEF Inv, TypeOK
  <2>2. r # None /\ c # v
    BY <1>2, Distinct DEF Calls
  <2>3. r = v
    BY <2>1, <2>2 DEF OnServer
  <2>. QED BY <1>2, <2>2, <2>3
<1>4. \A b \in Resolves : b = c \/ target'[b] = target[b]
  BY DEF Begin, Inv, TypeOK
<1>5. ASSUME NEW b \in Resolves, at[b] = "committed" PROVE at'[b] = at[b] /\ target'[b] = target[b]
  BY <1>1, <1>4, <1>5, Distinct DEF Inv, TypeOK
<1>6. \A id \in Connects : Settling(id) => Settling(id)'
  BY <1>5 DEF Settling
<1>7. ASSUME NEW b \in Resolves, answer'[b] = "Rejected" PROVE rows'[target'[b]].status = "Rejected"
  <2>1. b \in Calls /\ answer[b] # None
    BY <1>1, <1>7, Distinct DEF Statuses
  <2>2. b # c
    BY <1>1, <2>1 DEF Inv, CallInv
  <2>. QED BY <1>1, <1>4, <1>7, <2>2 DEF UpToDate
<1>8. memory' = memory /\ rows' = rows /\ IsOpen(v)' /\ (faults = 0)'
  BY <1>1, <1>3 DEF IsOpen, UpToDate
<1>. QED BY <1>6, <1>7, <1>8 DEF UpToDate, KnowsRow

LEMMA LoadUpToDate ==
    ASSUME Inv, NEW v \in Servers, OnServer(v), UpToDate(v), NEW r \in Registries,
           LoadRequests(r) \/ LoadTokens(r)
    PROVE  UpToDate(v)'
<1>1. UNCHANGED <<rows, faults, at, answer, target>> /\ v \in Registries
  BY Distinct DEF LoadRequests, LoadTokens, disk, input
<1>2. ASSUME IsOpen(v)' \/ \A c \in Calls : at[c] = "idle",
             memory'[v] # None => \A id \in Connects : rows[id] # None => KnowsRow(memory'[v], id)
      PROVE  UpToDate(v)'
  <2>1. \A m, id : KnowsRow(m, id) => KnowsRow(m, id)'
    BY <1>1 DEF KnowsRow, Settling
  <2>. QED BY <1>1, <1>2 DEF UpToDate, KnowsRow, Settling
<1>3. CASE r # v
  <2>1. memory'[v] = memory[v]
    BY <1>1, <1>3 DEF LoadRequests, LoadTokens, Inv, TypeOK
  <2>. QED BY <1>2, <2>1 DEF UpToDate, IsOpen
<1>4. CASE r = v /\ LoadRequests(r)
  <2>1. memory[v] = None
    BY <1>4 DEF LoadRequests
  <2>2. \A c \in Calls : at[c] = "idle"
    BY <2>1 DEF UpToDate, IsOpen
  <2>3. \A id \in Connects : rows[id] = None
    BY <2>2, Distinct DEF Inv, RowInv
  <2>. QED BY <1>2, <2>2, <2>3
<1>5. CASE r = v /\ LoadTokens(r)
  <2>1. PICK m \in Memory : m = memory[v]
    BY <1>1, <1>5 DEF LoadTokens, Inv, TypeOK
  <2>2. memory[v] # None
    BY <1>5 DEF LoadTokens
  <2>3. memory'[v] = [m EXCEPT !.approved = tokens]
    BY <1>1, <1>5, <2>1 DEF LoadTokens, Inv, TypeOK
  <2>4. memory'[v].requests = m.requests /\ memory'[v].approved = tokens /\ memory'[v] \in Memory
    BY <2>3 DEF Memory, Inv, TypeOK
  <2>5. tokens # None
    BY Distinct DEF Inv, TypeOK
  <2>6. IsOpen(v)'
    BY <2>4, <2>5, Distinct DEF IsOpen
  <2>7. \A id \in Connects : rows[id] # None => KnowsRow(memory'[v], id)
    BY <2>1, <2>2, <2>4 DEF UpToDate, KnowsRow
  <2>. QED BY <1>2, <2>6, <2>7
<1>. QED BY <1>3, <1>4, <1>5

\* The invariant, step by step: what fails or crashes takes a fault.
LEMMA UpToDateStep ==
    ASSUME Inv, MaxFaults = 0, NEW v \in Servers, OnServer(v), OnServer(v)', UpToDate(v),
           [Next]_vars
    PROVE  UpToDate(v)'
<1>1. ~Fault
  BY DEF Fault, Inv, TypeOK
<1>2. ASSUME NEW c \in Resolves, RememberApproval(c) PROVE UpToDate(v)'
  <2>1. at[c] = "committed" /\ UNCHANGED <<faults, input>> /\ rows' = rows /\ c \in Calls
    BY <1>2, Distinct DEF RememberApproval, disk
  <2>2. Settles(c, "Approved", c)
    BY <1>2, RememberEnds
  <2>3. target[c] \in Connects /\ rows[target[c]] # None /\ rows[target[c]].token = c
    BY <2>1 DEF Inv, CallInv, MemInv
  <2>4. rows[target[c]].status = "Approved"
    BY <2>3, Distinct DEF Inv, RowInv, Opened
  <2>. QED BY <2>1, <2>2, <2>4, SettlesUpToDate
<1>3. ASSUME NEW c \in Resolves, Reject(c) PROVE UpToDate(v)'
  <2>1. /\ at[c] = "begun" /\ UNCHANGED <<faults, input>> /\ c \in Calls /\ ~Locked(reg[c])
        /\ IsPending(c)
    BY <1>3, Distinct DEF Reject, MayResolve, MayWrite
  <2>2. Settles(c, "Rejected", None) /\ Rejects(c)
    BY <1>3, RejectEnds
  <2>3. /\ target[c] \in Connects /\ rows[target[c]] # None
        /\ rows'[target[c]].status = IF rows[target[c]].status = "Pending" THEN "Rejected"
                                     ELSE rows[target[c]].status
        /\ \A id \in Connects \ {target[c]} : rows'[id] = rows[id]
    BY <2>2, RejectsRows
  <2>4. rows[target[c]].status = "Pending"
    BY <2>1, <2>3, KnownAsWritten DEF IsPending, Known
  <2>. QED BY <2>1, <2>2, <2>3, <2>4, SettlesUpToDate
<1>4. ASSUME NEW c \in Connects, AskPairing(c) PROVE UpToDate(v)'
  <2>1. /\ UNCHANGED <<faults, rows, memory, answer, target>> /\ at[c] = "begun"
        /\ at' = [at EXCEPT ![c] = "asking"] /\ c \in Calls
    BY <1>4, Distinct DEF AskPairing, disk, input
  <2>2. IsOpen(v)
    BY <2>1, RunsOnServer
  <2>3. \A b \in Resolves : at[b] = "committed" => at'[b] = "committed"
    BY <2>1, Distinct DEF Inv, TypeOK
  <2>4. \A id \in Connects : Settling(id) => Settling(id)'
    BY <2>1, <2>3 DEF Settling
  <2>. QED BY <2>1, <2>2, <2>4 DEF UpToDate, IsOpen, KnowsRow
<1>5. CASE UNCHANGED vars
  BY <1>5 DEF vars, disk, input, UpToDate, IsOpen, KnowsRow, Settling
<1>6. ASSUME NEW c \in Calls, Fails(c) PROVE FALSE
  BY <1>1, <1>6 DEF Fails
<1>7. ASSUME NEW p \in Processes, Crash(p) PROVE FALSE
  BY <1>1, <1>7 DEF Crash
<1>8. ASSUME NEW c \in Connects, ConnectStep(c) PROVE UpToDate(v)'
  BY <1>1, <1>4, <1>8, AnswersUpToDate, OpenUpToDate, Distinct DEF ConnectStep, OpenUnconfirmed
<1>9. ASSUME NEW c \in Resolves, ResolveStep(c) PROVE UpToDate(v)'
  BY <1>1, <1>2, <1>3, <1>9, AnswersUpToDate, ApproveUpToDate, Distinct
     DEF ResolveStep, ApproveUnconfirmed, RejectUnconfirmed
<1>. QED BY <1>5, <1>6, <1>7, <1>8, <1>9, BeginUpToDate, LoadUpToDate DEF Next

\* With one server, no gateway request and no statement that fails, the test's claim holds
\* under every interleaving: the registry's lock is held over the transaction, so no
\* rejection is answered for a request that was approved (control_plane.rs:1458). Each of the
\* two conditions is needed: pairing_rejection shows the first, and an approval that is
\* committed but cannot be read back leaves the registry with a pending request, which it
\* then rejects.
THEOREM RejectionStands ==
    ASSUME MaxFaults = 0, NEW v \in Servers
    PROVE  Spec /\ []OnServer(v) => []RejectedWithoutToken
<1>1. Init => UpToDate(v)
  BY Distinct DEF Init, UpToDate, Statuses
<1>2. Inv /\ OnServer(v) /\ OnServer(v)' /\ UpToDate(v) /\ [Next]_vars => UpToDate(v)'
  BY UpToDateStep
<1>3. ASSUME Inv, UpToDate(v) PROVE RejectedWithoutToken
  <2>. SUFFICES ASSUME NEW c \in Resolves, answer[c] = "Rejected" PROVE rows[target[c]].token = None
    BY DEF RejectedWithoutToken
  <2>1. c \in Calls /\ at[c] # "idle" /\ rows[target[c]].status = "Rejected"
    BY <1>3, Distinct DEF UpToDate, Inv, CallInv, Statuses
  <2>2. target[c] \in Connects /\ rows[target[c]] # None
    BY <1>3, <2>1 DEF Inv, CallInv
  <2>. QED BY <1>3, <2>1, <2>2 DEF Inv, RowInv, Opened
<1>. QED BY <1>1, <1>2, <1>3, Invariance, PTL DEF Spec
=============================================================================
