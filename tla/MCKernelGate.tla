---------------------------- MODULE MCKernelGate ----------------------------
(* Small instances of KernelGate: a broad pack with a connector, a narrow   *)
(* one without, and a second, narrower manifest under the broad pack's id.  *)
EXTENDS KernelGate, TLC

CONSTANTS c1, c2, c3, c4, broad, narrow, read, write, slack

MCCalls3 == {c1, c2, c3}
MCCalls4 == {c1, c2, c3, c4}
MCPackIds == {broad, narrow}
MCCapabilities == {read, write}
MCConnectors == {slack}

BroadPack == [id |-> broad, grants |-> {read, write}, connectors |-> {slack}]
NarrowPack == [id |-> narrow, grants |-> {read}, connectors |-> {}]
ShrunkPack == [id |-> broad, grants |-> {read}, connectors |-> {}]

MCManifests == {BroadPack, NarrowPack, ShrunkPack}
MCDemands == {{read}, {read, write}}
OneDemand == {{read}}
OneManifest == {BroadPack}

CallSymmetry == Permutations(Calls)
=============================================================================
