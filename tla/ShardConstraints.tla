-------------------------- MODULE ShardConstraints --------------------------
(***************************************************************************)
(* What the proof of one shard constrains about the shard's public values: *)
(* `eval_public_values` of crates/core/executor/src/record.rs, and the     *)
(* control interaction between the public values and the global memory and *)
(* page protection tables (crates/core/machine/src/memory).                *)
(*                                                                         *)
(* A field element that witnesses an inverse holds the element it inverts: *)
(* multiplying the two gives one exactly if they are equal and not zero.   *)
(* Range checks of limbs are left out: the values here have no limbs.      *)
(***************************************************************************)
EXTENDS Integers, Sequences, FiniteSets

CONSTANT LowLimit    \* 2^24: the low part of a timestamp is below it

ASSUME LowLimitAssumption == LowLimit \in Nat /\ LowLimit > 0 /\ LowLimit % 8 = 0

High(t) == t \div LowLimit

Low(t) == t % LowLimit

IsInverse(inv, x) == x # 0 /\ inv = x

\* The IsZeroOperation gadget: eq tells whether x is zero.
IsZero(x, inv, eq) == eq \in {0, 1} /\ IF x = 0 THEN eq = 1 ELSE eq = 0 /\ IsInverse(inv, x)

-----------------------------------------------------------------------------
EvalState(pv) ==
  /\ Low(pv.initial_timestamp) % 8 = 1
  /\ Low(pv.last_timestamp) % 8 = 1
  /\ pv.is_execution_shard \in {0, 1}
  /\ pv.is_execution_shard = 0 =>
       pv.initial_timestamp = pv.last_timestamp /\ pv.pc_start = pv.next_pc
  /\ IsZero(High(pv.last_timestamp) - High(pv.initial_timestamp),
            pv.inv_timestamp_high, pv.is_timestamp_high_eq)
  /\ IsZero(Low(pv.last_timestamp) - Low(pv.initial_timestamp),
            pv.inv_timestamp_low, pv.is_timestamp_low_eq)
  /\ 1 - pv.is_execution_shard = pv.is_timestamp_high_eq * pv.is_timestamp_low_eq

\* The element whose inverse shows that a timestamp is not one.
NotOne(t) == High(t) + Low(t) - 1

EvalFirstShard(pv, zero) ==
  /\ IsInverse(pv.last_timestamp_inv, NotOne(pv.last_timestamp))
  /\ pv.is_first_shard = 0 =>
       IsInverse(pv.initial_timestamp_inv, NotOne(pv.initial_timestamp))
  /\ pv.is_first_shard = 1 =>
       /\ pv.initial_timestamp = 1
       /\ pv.is_execution_shard = 1
       /\ pv.prev_committed_value_digest = zero.committed_value_digest
       /\ pv.prev_deferred_proofs_digest = zero.deferred_proofs_digest
       /\ <<pv.prev_exit_code, pv.prev_commit_syscall, pv.prev_commit_deferred_syscall>>
            = <<0, 0, 0>>
       /\ <<pv.previous_init_addr, pv.previous_finalize_addr>> = <<0, 0>>
       /\ <<pv.previous_init_page_idx, pv.previous_finalize_page_idx>> = <<0, 0>>

EvalExitCode(pv) ==
  pv.prev_exit_code # 0 \/ pv.is_execution_shard = 0 => pv.exit_code = pv.prev_exit_code

\* The same constraints twice: a flag that may be set once, in an execution
\* shard, and a digest that is fixed by the flag or by being non-zero.
EvalDigest(pv, prev_flag, flag, prev_digest, digest, zero) ==
  /\ {prev_flag, flag} \subseteq {0, 1}
  /\ prev_flag = 1 => flag = 1
  /\ pv.is_execution_shard = 0 => flag = prev_flag
  /\ pv.is_execution_shard = 0 \/ prev_digest # zero \/ prev_flag = 1 => digest = prev_digest

EvalCommittedValueDigest(pv, zero) ==
  EvalDigest(pv, pv.prev_commit_syscall, pv.commit_syscall,
             pv.prev_committed_value_digest, pv.committed_value_digest,
             zero.committed_value_digest)

EvalDeferredProofsDigest(pv, zero) ==
  EvalDigest(pv, pv.prev_commit_deferred_syscall, pv.commit_deferred_syscall,
             pv.prev_deferred_proofs_digest, pv.deferred_proofs_digest,
             zero.deferred_proofs_digest)

-----------------------------------------------------------------------------
(* The tables of global memory and page events. Row i has its own address  *)
(* and the address before it; the public values send the state before the  *)
(* first row (0, previous, valid) and receive the one after the last       *)
(* (count, last, valid), where a row's state is valid if the row compared  *)
(* its two addresses.                                                      *)

\* The rows of the table: generate_trace has the events sorted by address.
Sorted(S) ==
  [i \in 1..Cardinality(S) |-> CHOOSE a \in S : Cardinality({b \in S : b < a}) = i - 1]

RowPrev(prev, addrs, i) == IF i = 1 THEN prev ELSE addrs[i - 1]

Control(prev, last, addrs, compared) ==
  IF addrs = <<>>
  THEN last = prev
  ELSE /\ last = addrs[Len(addrs)]
       /\ Len(addrs) \in compared
       /\ \A i \in DOMAIN addrs :
            IF i \in compared THEN RowPrev(prev, addrs, i) < addrs[i] ELSE addrs[i] = 0

\* MemoryGlobalChip: the first row after address zero does not compare.
MemoryControl(prev, last, addrs) ==
  Control(prev, last, addrs, {i \in DOMAIN addrs : ~ (i = 1 /\ prev = 0)})

\* PageProtGlobalChip: only page zero itself is not compared.
PageProtControl(prev, last, idxs) ==
  Control(prev, last, idxs, {i \in DOMAIN idxs : ~ (i = 1 /\ prev = 0 /\ idxs[1] = 0)})
=============================================================================
