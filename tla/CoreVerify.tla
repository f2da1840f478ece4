----------------------------- MODULE CoreVerify -----------------------------
(***************************************************************************)
(* `SP1Prover::verify` of crates/prover/src/verify.rs: what the verifier   *)
(* of a core proof checks about the public values of its shards. The two   *)
(* checks that are not about the sequence of public values, the shard      *)
(* proofs themselves and the global cumulative sum, are left out here.     *)
(***************************************************************************)
EXTENDS Integers, Sequences

CONSTANTS HALT_PC,
          MaxShards      \* 1 << MAX_LOG_NUMBER_OF_SHARDS

\* Field `prev` of a shard is field `last` of the shard before it.
Linked(pvs, prev, last, initial) ==
  \A i \in 1..Len(pvs) :
    pvs[i][prev] = IF i = 1 THEN initial ELSE pvs[i - 1][last]

FirstShardIsFirst(pvs) ==
  /\ pvs[1].is_execution_shard = 1
  /\ \A i \in 1..Len(pvs) : pvs[i].is_first_shard = IF i = 1 THEN 1 ELSE 0

TimestampsLinked(pvs) ==
  /\ Linked(pvs, "initial_timestamp", "last_timestamp", 1)
  /\ \A i \in 1..Len(pvs) :
       (pvs[i].is_execution_shard = 1) <=> (pvs[i].initial_timestamp # pvs[i].last_timestamp)

ProgramCountersLinked(pvs, vk) ==
  /\ Linked(pvs, "pc_start", "next_pc", vk.pc_start)
  /\ \A i \in 1..Len(pvs) : pvs[i].is_execution_shard # 1 => pvs[i].pc_start = pvs[i].next_pc
  /\ pvs[Len(pvs)].next_pc = HALT_PC

ExitCodeLinked(pvs) ==
  /\ Linked(pvs, "prev_exit_code", "exit_code", 0)
  /\ \A i \in 1..Len(pvs) :
       pvs[i].is_execution_shard # 1 \/ pvs[i].prev_exit_code # 0
         => pvs[i].prev_exit_code = pvs[i].exit_code

NonceUniform(pvs) == \A i \in 2..Len(pvs) : pvs[i].proof_nonce = pvs[1].proof_nonce

MemoryLinked(pvs, vk) ==
  /\ Linked(pvs, "previous_init_addr", "last_init_addr", 0)
  /\ Linked(pvs, "previous_finalize_addr", "last_finalize_addr", 0)
  /\ Linked(pvs, "previous_init_page_idx", "last_init_page_idx", 0)
  /\ Linked(pvs, "previous_finalize_page_idx", "last_finalize_page_idx", 0)
  /\ \A i \in 1..Len(pvs) :
       pvs[i].is_untrusted_programs_enabled = vk.enable_untrusted_programs
  /\ pvs[Len(pvs)].last_init_addr # 0
  /\ pvs[Len(pvs)].last_finalize_addr # 0

DigestsLinked(pvs, zero) ==
  /\ Linked(pvs, "prev_committed_value_digest", "committed_value_digest",
            zero.committed_value_digest)
  /\ Linked(pvs, "prev_deferred_proofs_digest", "deferred_proofs_digest",
            zero.deferred_proofs_digest)
  /\ Linked(pvs, "prev_commit_syscall", "commit_syscall", 0)
  /\ Linked(pvs, "prev_commit_deferred_syscall", "commit_deferred_syscall", 0)
  /\ pvs[Len(pvs)].commit_syscall = 1
  /\ pvs[Len(pvs)].commit_deferred_syscall = 1

\* Every check but the one of the proof nonce.
VerifyLinks(pvs, vk, zero) ==
  /\ pvs # <<>>
  /\ FirstShardIsFirst(pvs)
  /\ TimestampsLinked(pvs)
  /\ ProgramCountersLinked(pvs, vk)
  /\ ExitCodeLinked(pvs)
  /\ MemoryLinked(pvs, vk)
  /\ DigestsLinked(pvs, zero)
  /\ Len(pvs) < MaxShards
=============================================================================
