----------------------------- MODULE StreamProver -----------------------------
(***************************************************************************)
(* `prove_core` of crates/core/machine/src/utils/prove.rs, the prover of   *)
(* the machine's own tests. It runs the same MachineExecutor as module     *)
(* ShardChain, receives the shard proofs in the order of their records,    *)
(* and collects them in a BTreeMap keyed by four of their public values.   *)
(***************************************************************************)
EXTENDS ShardChain

CONSTANT LimbBase   \* 2^16: an address is three limbs, the low one first

Limbs(addr) ==
  <<addr % LimbBase, (addr \div LimbBase) % LimbBase, addr \div (LimbBase * LimbBase)>>

KeyNoEnd(pv) ==
  <<pv.initial_timestamp>> \o Limbs(pv.previous_init_addr) \o Limbs(pv.previous_finalize_addr)

\* The key of a proof. The limbs of a timestamp are the high ones first, so that
\* they are ordered as the timestamp is.
Key(pv) ==
  <<pv.initial_timestamp, pv.last_timestamp>>
    \o Limbs(pv.previous_init_addr) \o Limbs(pv.previous_finalize_addr)

\* The order of tuples and arrays in Rust.
KeyLess(a, b) ==
  \E n \in DOMAIN a : a[n] < b[n] /\ \A m \in 1..(n - 1) : a[m] = b[m]

\* What the map holds for a key: the proof inserted last.
Inserted(key) == shards[Max({i \in DOMAIN shards : Key(shards[i].pv) = key})].pv

Keys == {Key(shards[i].pv) : i \in DOMAIN shards}

\* into_values: the proofs in the order of their keys.
ShardProofs ==
  [n \in 1..Cardinality(Keys) |->
     Inserted(CHOOSE k \in Keys : Cardinality({j \in Keys : KeyLess(j, k)}) = n - 1)]

-----------------------------------------------------------------------------
(* Properties. *)

\* Two shards without instructions, of one turn, that start from the same memory
\* addresses: two precompile shards, two page shards, or one of these and the
\* first memory shard.
Alike(p, q) ==
  /\ p.is_execution_shard = 0 /\ q.is_execution_shard = 0
  /\ p.initial_timestamp = q.initial_timestamp
  /\ p.previous_init_addr = q.previous_init_addr
  /\ p.previous_finalize_addr = q.previous_finalize_addr

\* prove_core returns the proofs of all shards in the order of their records, if
\* no two of them are alike and no shard starts from an address above the first
\* limb: the keys are compared limb by limb, the low one first.
StreamCollects ==
  /\ Done
  /\ \A i, j \in DOMAIN shards : i # j => ~ Alike(shards[i].pv, shards[j].pv)
  /\ \A i \in DOMAIN shards :
       shards[i].pv.previous_init_addr < LimbBase /\ shards[i].pv.previous_finalize_addr < LimbBase
  => ShardProofs = PublicValues
=============================================================================
