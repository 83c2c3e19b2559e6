------------------------------- MODULE MCSweep -------------------------------
(***************************************************************************)
(* Sweep on four cells, two windows by two capacities, and three blocks in *)
(* two shards with a gap.                                                  *)
(***************************************************************************)
EXTENDS Sweep

MCPolicies == <<"lru">>
MCWindows == <<8, 16>>
MCPcts == <<25, 50>>
Means(raw) == [w \in {8, 16} |-> [mean |-> {<<raw * w, 3>>}]]
MCStats == [window_working_set |-> Means(10), window_working_set_stems |-> {Means(1)}]
MCStrataFile == [defi_contracts |-> {}, defi_heavy |-> <<2, 4>>, transfer_only |-> <<1>>]
MCShards == <<<<1, 2>>, <<4>>>>
=============================================================================
