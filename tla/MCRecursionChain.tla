---------------------------- MODULE MCRecursionChain ----------------------------
(* Short executions with few shards, cut anywhere, with a deferred precompile shard or
   a memory shard of their own, that verify up to two deferred proofs. No shard runs
   ahead to their one COMMIT, so that it does not matter where its word was stored.
   compress is given the core proof of the execution or any three shards of it, and
   any two deferred proofs. *)
EXTENDS RecursionChain

MCCommitted == {<<3>>}

MCDeferred == {<<0>>, <<25>>}

MCMemories == {[init |-> {0, 1}, finalize |-> {0, 1, 2}]}

MCPages == {[idxs |-> [init |-> {}, finalize |-> {}], untrusted |-> 0]}

MCRecursionInit ==
  /\ RecursionInit
  /\ \A k \in DOMAIN program.code : program.code[k].op # "ALU"
  /\ program.stored["COMMIT"] = 1

MCRecursionSpec == MCRecursionInit /\ [][RecursionNext]_<<vars, recursion>>
=============================================================================
