---------------------------- MODULE PairingLedger ----------------------------
(***************************************************************************)
(* What device pairing promises: one authority.  A pairing request is      *)
(* opened once and resolved once, an approval issues one token, and a      *)
(* device's valid token is the one of its latest approval.                 *)
(***************************************************************************)
CONSTANTS Ids, Tokens, Devices, None

VARIABLES status,   \* status[id]: None until the request is open
          device,   \* device[id]: the device that asked for it
          issued,   \* issued[id]: the token its approval issued
          current   \* current[d]: the valid token of device d

vars == <<status, device, issued, current>>

Init ==
    /\ status = [id \in Ids |-> None]
    /\ device = [id \in Ids |-> None]
    /\ issued = [id \in Ids |-> None]
    /\ current = [d \in Devices |-> None]

OpenRequest(id, d) ==
    /\ status[id] = None
    /\ status' = [status EXCEPT ![id] = "Pending"]
    /\ device' = [device EXCEPT ![id] = d]
    /\ UNCHANGED <<issued, current>>

Approve(id, token) ==
    /\ status[id] = "Pending"
    /\ \A other \in Ids : issued[other] # token
    /\ status' = [status EXCEPT ![id] = "Approved"]
    /\ issued' = [issued EXCEPT ![id] = token]
    /\ current' = [current EXCEPT ![device[id]] = token]
    /\ UNCHANGED device

Reject(id) ==
    /\ status[id] = "Pending"
    /\ status' = [status EXCEPT ![id] = "Rejected"]
    /\ UNCHANGED <<device, issued, current>>

Next == \E id \in Ids :
    \/ \E d \in Devices : OpenRequest(id, d)
    \/ \E token \in Tokens : Approve(id, token)
    \/ Reject(id)

Spec == Init /\ [][Next]_vars
=============================================================================
