---------------------------- MODULE RecursionChain ----------------------------
(***************************************************************************)
(* From the shards of an execution to one compressed proof: `compress` of  *)
(* crates/prover/src/local.rs gives each shard proof and each batch of     *)
(* deferred proofs to a recursion program, and proofs of neighbouring      *)
(* ranges to the compress program until one proof is left. This module has *)
(* what these programs assert of the public values and the public values   *)
(* they commit to (crates/recursion/circuit/src/machine). Which ranges are *)
(* reduced, and in which order, is any choice of neighbours: module        *)
(* CompressTree shows that the tree never makes another one.               *)
(*                                                                         *)
(* There is one program, so its verifying key and the root of the key tree *)
(* are the same everywhere and left out. A global cumulative sum is an     *)
(* integer; the sums of the shards and the one of the verifying key cancel *)
(* out if each is added once.                                              *)
(***************************************************************************)
EXTENDS ShardChain

CONSTANTS SubProofs,    \* the deferred proofs there are, as digits 1..9
          MaxDeferred,  \* bound on how many compress is given
          MaxCore,      \* bound on the shards of a core proof that is not the execution's
          MaxArity      \* the largest number of proofs the compress program takes

VARIABLES
  deferred_proofs,  \* the deferred proofs compress is given
  core,             \* the core proof compress is given, as indices of shards
  layer,            \* the recursion proofs left to reduce
  phase             \* what compress does, or "panicked" once a program's assertion failed

recursion == <<deferred_proofs, core, layer, phase>>

-----------------------------------------------------------------------------
(* Deferred proofs. The digest of a sequence of them is one word. *)

HashDeferredProof(digest, proof) == <<10 * digest[1] + proof>>

\* hash_deferred_proofs: the digest after each of the proofs.
HashDeferredProofs(digest, proofs) == FoldLeft(HashDeferredProof, digest, proofs)

NoProofs == <<0>>

\* The nonce get_first_layer_inputs finds: it reads the public values of the first
\* shard as if they were those of a recursion proof. Their nonce is at 181..184,
\* past the end of the 160 elements of a shard, where to_vec has left zeros.
FirstLayerNonce == 0

-----------------------------------------------------------------------------
(* The public values of recursion proofs. *)

\* What a proof says of the state before and after it.
Links ==
  {<<"prev_committed_value_digest", "committed_value_digest">>,
   <<"prev_deferred_proofs_digest", "deferred_proofs_digest">>,
   <<"pc_start", "next_pc">>,
   <<"initial_timestamp", "last_timestamp">>,
   <<"previous_init_addr", "last_init_addr">>,
   <<"previous_finalize_addr", "last_finalize_addr">>,
   <<"previous_init_page_idx", "last_init_page_idx">>,
   <<"previous_finalize_page_idx", "last_finalize_page_idx">>,
   <<"start_reconstruct_deferred_digest", "end_reconstruct_deferred_digest">>,
   <<"prev_exit_code", "exit_code">>,
   <<"prev_commit_syscall", "commit_syscall">>,
   <<"prev_commit_deferred_syscall", "commit_deferred_syscall">>}

Before == {l[1] : l \in Links}

After == {l[2] : l \in Links}

Weight(i) == 16 ^ i

VkSum == - FoldLeft(LAMBDA s, i : s + Weight(i), 0, [i \in DOMAIN shards |-> i])

CompleteAnyDeferred(pv) ==
  /\ pv.prev_committed_value_digest = ZeroDigests.committed_value_digest
  /\ pv.prev_deferred_proofs_digest = ZeroDigests.deferred_proofs_digest
  /\ pv.next_pc = HALT_PC
  /\ pv.contains_first_shard = 1
  /\ pv.initial_timestamp = 1
  /\ pv.previous_init_addr = 0 /\ pv.last_init_addr # 0
  /\ pv.previous_finalize_addr = 0 /\ pv.last_finalize_addr # 0
  /\ pv.previous_init_page_idx = 0 /\ pv.previous_finalize_page_idx = 0
  /\ pv.start_reconstruct_deferred_digest = NoProofs
  /\ <<pv.prev_exit_code, pv.prev_commit_syscall, pv.prev_commit_deferred_syscall>> = <<0, 0, 0>>
  /\ <<pv.commit_syscall, pv.commit_deferred_syscall>> = <<1, 1>>
  /\ pv.global_cumulative_sum = 0

\* assert_complete.
Complete(pv) ==
  /\ pv.prev_committed_value_digest = ZeroDigests.committed_value_digest
  /\ pv.prev_deferred_proofs_digest = ZeroDigests.deferred_proofs_digest
  /\ pv.next_pc = HALT_PC
  /\ pv.contains_first_shard = 1
  /\ pv.initial_timestamp = 1
  /\ pv.previous_init_addr = 0 /\ pv.last_init_addr # 0
  /\ pv.previous_finalize_addr = 0 /\ pv.last_finalize_addr # 0
  /\ pv.previous_init_page_idx = 0 /\ pv.previous_finalize_page_idx = 0
  /\ pv.start_reconstruct_deferred_digest = NoProofs
  /\ pv.end_reconstruct_deferred_digest = pv.deferred_proofs_digest
  /\ <<pv.prev_exit_code, pv.prev_commit_syscall, pv.prev_commit_deferred_syscall>> = <<0, 0, 0>>
  /\ <<pv.commit_syscall, pv.commit_deferred_syscall>> = <<1, 1>>
  /\ pv.global_cumulative_sum = 0

\* A program of the first layer or of the tree asserts `holds` and, if it is told
\* that its proof is the last one, that the public values are complete.
Asserts(holds, pv) == holds /\ (pv.is_complete = 1 => Complete(pv))

-----------------------------------------------------------------------------
(* The programs. *)

NormalizePv(i, digest, is_complete) ==
  LET pv == shards[i].pv IN
  [f \in (Before \cup After) \
         {"start_reconstruct_deferred_digest", "end_reconstruct_deferred_digest"} |-> pv[f]] @@
  [start_reconstruct_deferred_digest |-> digest, end_reconstruct_deferred_digest |-> digest,
   global_cumulative_sum |-> Weight(i) + IF pv.is_first_shard = 1 THEN VkSum ELSE 0,
   contains_first_shard |-> pv.is_first_shard, num_included_shard |-> 1,
   is_complete |-> is_complete, proof_nonce |-> pv.proof_nonce]

\* There is a proof of a shard only if its public values satisfy the constraints and
\* show what its syscall table has committed to.
Provable(i) ==
  /\ Satisfied(i)
  /\ \A k \in RanIn(shards[i].pv) : program.code[k].op \in Calls => Shows(i, program.code[k])

\* SP1RecursiveVerifier, beyond the shard proof itself.
NormalizeOK(i) ==
  LET pv == shards[i].pv IN
  /\ pv.is_first_shard = 1 => pv.pc_start = vk.pc_start
  /\ pv.is_untrusted_programs_enabled = vk.enable_untrusted_programs

\* SP1DeferredVerifier: the deferred proofs are complete, and the public values are
\* those of no execution at all.
DeferredPv(digest, proofs) ==
  [prev_committed_value_digest |-> ZeroDigests.committed_value_digest,
   committed_value_digest |-> ZeroDigests.committed_value_digest,
   prev_deferred_proofs_digest |-> NoProofs, deferred_proofs_digest |-> NoProofs,
   pc_start |-> vk.pc_start, next_pc |-> vk.pc_start,
   initial_timestamp |-> 1, last_timestamp |-> 1,
   start_reconstruct_deferred_digest |-> digest,
   end_reconstruct_deferred_digest |-> HashDeferredProofs(digest, proofs),
   global_cumulative_sum |-> 0, contains_first_shard |-> 0, num_included_shard |-> 0,
   is_complete |-> 0, proof_nonce |-> FirstLayerNonce] @@
  [f \in (Before \cup After) |-> 0]

Sum(proofs, f) == FoldLeft(LAMBDA s, pv : s + pv[f], 0, proofs)

\* SP1CompressVerifier: what it asserts of its proofs, and its public values.
CompressOK(proofs) ==
  /\ \A l \in Links : \A i \in 2..Len(proofs) : proofs[i][l[1]] = proofs[i - 1][l[2]]
  /\ \A i \in 2..Len(proofs) : proofs[i].proof_nonce = proofs[1].proof_nonce
  /\ \A i \in 1..Len(proofs) :
       proofs[i].num_included_shard < MaxShards /\ proofs[i].contains_first_shard \in {0, 1}
  /\ Sum(proofs, "num_included_shard") < MaxShards
  /\ Sum(proofs, "contains_first_shard") \in {0, 1}

CompressPv(proofs, is_complete) ==
  [f \in Before |-> proofs[1][f]] @@ [f \in After |-> proofs[Len(proofs)][f]] @@
  [global_cumulative_sum |-> Sum(proofs, "global_cumulative_sum"),
   contains_first_shard |-> Sum(proofs, "contains_first_shard"),
   num_included_shard |-> Sum(proofs, "num_included_shard"),
   is_complete |-> is_complete, proof_nonce |-> proofs[1].proof_nonce]

-----------------------------------------------------------------------------
(* compress and shrink. *)

\* The core proofs that compress may be given: the one of the execution, or one that
\* has shards of it missing, repeated or out of order. Every shard has a proof.
Cores ==
  LET provable == {i \in DOMAIN shards : Provable(i)} IN
  {c \in {[i \in DOMAIN shards |-> i]} : Range(c) \subseteq provable}
    \cup UNION {[1..n -> provable] : n \in 1..MaxCore}

Deferrals == UNION {[1..n -> SubProofs] : n \in 0..MaxDeferred}

Prefix(s, n) == SubSeq(s, 1, n)

\* get_deferred_inputs, with a batch size of one.
DeferredInputs(proofs) ==
  [k \in DOMAIN proofs |->
     DeferredPv(HashDeferredProofs(NoProofs, Prefix(proofs, k - 1)), <<proofs[k]>>)]

NormalizeInputsLate(c, proofs) ==
  [i \in DOMAIN c |->
     NormalizePv(c[i], NoProofs, IF Len(c) = 1 /\ proofs = <<>> THEN 1 ELSE 0)]

\* get_normalize_witnesses, and the digest all of them are given.
NormalizeInputs(c, proofs) ==
  [i \in DOMAIN c |->
     NormalizePv(c[i], HashDeferredProofs(NoProofs, proofs),
                 IF Len(c) = 1 /\ proofs = <<>> THEN 1 ELSE 0)]

\* get_first_layer_inputs and the programs of the first layer.
FirstLayer ==
  /\ Done /\ phase = "execute"
  /\ \E c \in Cores, proofs \in Deferrals :
     \E inputs \in {DeferredInputs(proofs) \o NormalizeInputs(c, proofs)} :
       /\ core' = c
       /\ deferred_proofs' = proofs
       /\ IF \A k \in DOMAIN inputs :
               Asserts(k > Len(proofs) => NormalizeOK(c[k - Len(proofs)]), inputs[k])
          THEN layer' = inputs /\ phase' = "reduce"
          ELSE phase' = "panicked" /\ UNCHANGED layer
  /\ UNCHANGED vars

\* A program of the tree on the n proofs from the i-th on. Where an assertion of it
\* fails, compress unwraps the error and shrink returns it.
Compress(i, n, is_complete, next) ==
  /\ phase = "reduce" /\ i + n - 1 <= Len(layer)
  /\ \E proofs \in {SubSeq(layer, i, i + n - 1)} : \E pv \in {CompressPv(proofs, is_complete)} :
       IF Asserts(CompressOK(proofs), pv)
       THEN /\ layer' = Prefix(layer, i - 1) \o <<pv>> \o SubSeq(layer, i + n, Len(layer))
            /\ phase' = next
       ELSE phase' = "panicked" /\ UNCHANGED layer
  /\ UNCHANGED <<vars, core, deferred_proofs>>

\* reduce_proofs.
Reduce(i, n) == Compress(i, n, IF n = Len(layer) THEN 1 ELSE 0, "reduce")

\* shrink: the root program, on the one proof that is left.
Shrink == Len(layer) = 1 /\ Compress(1, 1, 1, "shrunk")

RecursionInit ==
  /\ Init
  /\ deferred_proofs = <<>> /\ core = <<>> /\ layer = <<>> /\ phase = "execute"

RecursionNext ==
  \/ Next /\ UNCHANGED recursion
  \/ FirstLayer
  \/ \E i \in DOMAIN layer, n \in 2..MaxArity : Reduce(i, n)
  \/ Shrink

RecursionSpec == RecursionInit /\ [][RecursionNext]_<<vars, recursion>>

-----------------------------------------------------------------------------
(* Properties. *)

\* verify_compressed.
Accepted == phase # "panicked" /\ Len(layer) = 1 /\ layer[1].is_complete = 1

\* What SP1Prover::verify checks of the core proof, the global cumulative sum included.
CoreAccepted ==
  LET pvs == [i \in DOMAIN core |-> shards[core[i]].pv] IN
  /\ VerifyLinks(pvs, vk, ZeroDigests)
  /\ NonceUniform(pvs)
  /\ VkSum + FoldLeft(LAMBDA s, i : s + Weight(i), 0, core) = 0

\* The deferred proofs are those the execution has verified.
DeferredMatch == HashDeferredProofs(NoProofs, deferred_proofs) = program.digest

TypeOKRecursion ==
  /\ TypeOK
  /\ deferred_proofs \in Deferrals
  /\ core = <<>> \/ core \in Cores
  /\ \A k \in DOMAIN layer :
       DOMAIN layer[k] = Before \cup After \cup
         {"global_cumulative_sum", "contains_first_shard", "num_included_shard", "is_complete",
          "proof_nonce"}
  /\ phase \in {"execute", "reduce", "shrunk", "panicked"}

\* The recursion programs accept a core proof only if SP1Prover::verify accepts it,
\* whatever the shape of the tree, and only with the deferred proofs the execution
\* verified; the compressed proof then shows what the execution committed to.
RecursionSound ==
  /\ TypeOKRecursion
  /\ Accepted =>
       /\ CoreAccepted
       /\ DeferredMatch
       /\ layer[1].committed_value_digest = program.committed
       /\ layer[1].exit_code = program.exit_code
       /\ layer[1].num_included_shard = Len(core)

\* A program of the recursion fails only if the core proof does not verify or the
\* deferred proofs are others: there is no shape of the tree that fails where
\* another one would not.
RecursionComplete == phase = "panicked" => ~ CoreAccepted \/ ~ DeferredMatch

\* RecursionComplete, for an execution without deferred proofs or with the nonce
\* of zero that the deferred proofs are given.
RecursionCompleteUnlessNonce ==
  phase = "panicked" =>
    ~ CoreAccepted \/ ~ DeferredMatch \/ (deferred_proofs # <<>> /\ program.nonce # 0)
=============================================================================
