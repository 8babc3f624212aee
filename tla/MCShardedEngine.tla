-------------------------- MODULE MCShardedEngine --------------------------
(* Instance of ShardedEngine for TLC: two shards, one of which owns two    *)
(* symbols.                                                                *)
EXTENDS ShardedEngine

MCShardOf == [s \in Symbols |-> IF s = 1 THEN 2 ELSE 1]
=============================================================================
