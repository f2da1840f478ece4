----------------------------- MODULE MCShardChain -----------------------------
(* Executions of two kinds. Where an execution is cut: programs of up to two
   instructions before syscall_halt, with precompiles of three codes, one of them
   retained, and little memory; programs without precompiles store the words of their
   digests anywhere, others at the end. What an execution leaves in memory: up to six
   addresses, any of which but the first two the program image may initialize, and
   up to two pages likewise, after a short program. *)
EXTENDS StreamProver

MCCommitted == {<<3, 4>>, <<0, 4>>, <<0, 0>>, <<3>>}

MCDeferred == {<<0>>, <<5>>, <<5, 6>>}

LittleMemory == [init |-> {0, 1}, finalize |-> {0, 1, 2}]

MCMemories ==
  UNION {[init : {S \in SUBSET (0..n) : {0, 1} \subseteq S}, finalize : {0..n}] : n \in 1..5}

NoPages == [idxs |-> [init |-> {}, finalize |-> {}], untrusted |-> 0]

MCPages ==
  {NoPages} \cup
  [idxs : UNION {[init : SUBSET (1..n), finalize : {1..n}] : n \in 0..2}, untrusted : {1}]

LittleMemoryOnly(p) == p.memory = LittleMemory /\ p.untrusted = 0 /\ Len(p.committed) = 2

NoPrecompile(p) == \A k \in DOMAIN p.code : p.code[k].op # "PRECOMPILE"

StoredLast(p) == \A call \in Calls : p.code[p.stored[call]] = Commit(1)

ShortProgram(p) ==
  /\ p.committed = <<3>> /\ p.digest = <<0>> /\ p.exit_code = 0 /\ StoredLast(p)
  /\ Len(p.code) <= 4 /\ \A k \in DOMAIN p.code : p.code[k].op # "ALU"

MCInit ==
  /\ Programmed
  /\ \/ LittleMemoryOnly(program) /\ (NoPrecompile(program) \/ StoredLast(program))
     \/ ShortProgram(program)
  /\ Blanked

MCSpec == MCInit /\ [][Next]_vars
=============================================================================
