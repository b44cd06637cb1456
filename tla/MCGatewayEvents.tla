--------------------------- MODULE MCGatewayEvents ---------------------------
(***************************************************************************)
(* Instances of GatewayEvents for TLC.                                     *)
(***************************************************************************)
EXTENDS GatewayEvents

CONSTANTS p1, p2, c1, c2

NobodyAtAll == {}
OnePublisher == {p1}
TwoPublishers == {p1, p2}
OneClient == {c1}
OtherClient == {c2}
=============================================================================
