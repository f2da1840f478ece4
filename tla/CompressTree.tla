---------------------------- MODULE CompressTree ----------------------------
(***************************************************************************)
(* The reduction of the first-layer recursion proofs to one proof:         *)
(* `CompressTree` and `RangeProofs` of crates/prover/src/local.rs and the  *)
(* loop of `LocalProver::compress` that runs them.                         *)
(*                                                                         *)
(* What happens between the moment a batch is handed to an executor and    *)
(* the moment its proof is received is abstracted to the set `flight`: a   *)
(* batch in flight is delivered at any time and in any order (module       *)
(* CompressPipeline has the executors, the channels and the prover         *)
(* controller, and refines this module).                                   *)
(*                                                                         *)
(* A proof is abstracted to the half-open interval lo..hi of first-layer   *)
(* inputs it really covers and to its `is_complete` flag. The code does    *)
(* not keep that interval: it only keeps a shard_range (start, end) beside *)
(* a proof, and `split_off` computes the range of a half from the NUMBER   *)
(* of proofs in it, although a proof may cover several shards. So a        *)
(* shard_range is a label, and what the label says about lo..hi is what    *)
(* the properties below are about.                                         *)
(***************************************************************************)
EXTENDS Integers, Sequences, FiniteSets, Functions

CONSTANTS MaxInputs,    \* bound on the number of first-layer inputs
          BatchSizes    \* values of compose_batch_size (the maximal arity)

ASSUME MaxInputsAssumption == MaxInputs \in Nat \ {0}

\* compress_proof_shape_from_arity only knows arities above one.
ASSUME BatchSizesAssumption == \A b \in BatchSizes : b \in Nat /\ b > 1

VARIABLES
  inputs,             \* inputs.len(): how many first-layer inputs there are
  full_range,         \* end of full_range = 0..full_range of this round
  reduce_batch_size,  \* batch_size of this round's CompressTree
  flight,             \* batches handed out, whose proof has not been received
  map,                \* CompressTree::map, from the start of a range
  status,             \* "reducing", "done" or "panic"
  result              \* the proofs reduce_proofs returned last

vars == <<inputs, full_range, reduce_batch_size, flight, map, status, result>>

-----------------------------------------------------------------------------
(* Data. *)

Proof == [lo : Nat, hi : Nat, is_complete : BOOLEAN]

\* A RangeProofs; a batch in flight also has the flag put in its witness.
RangeProofs == [start : Nat, end : Nat, proofs : Seq(Proof)]

Batch == [start : Nat, end : Nat, proofs : Seq(Proof), is_complete : BOOLEAN]

\* The first and the last leaf (exclusive) of a queue of proofs.
Lo(r) == r.proofs[1].lo

Hi(r) == r.proofs[Len(r.proofs)].hi

\* The proof of a batch, labelled with the range of the batch. The recursion
\* program of a batch asserts that its proofs follow on from one another
\* (property Composable), so the new proof covers them all.
RecursionProof(b) ==
  [start |-> b.start, end |-> b.end,
   proof |-> [lo |-> Lo(b), hi |-> Hi(b), is_complete |-> b.is_complete]]

-----------------------------------------------------------------------------
(* RangeProofs and CompressTree. *)

\* Insert a range of proofs: an entry with the same start is overwritten.
Insert(m, r) ==
  [k \in DOMAIN m \cup {r.start} |-> IF k = r.start THEN r ELSE m[k]]

\* The keys of the left and of the right sibling of a labelled proof. The
\* left one is the entry just before the proof, if it ends where p starts.
LeftSibling(m, p) ==
  {k \in DOMAIN m : /\ k < p.start
                    /\ \A j \in DOMAIN m : j < p.start => j <= k
                    /\ m[k].end = p.start}

RightSibling(m, p) == {k \in DOMAIN m : k = p.end}

\* Mutant: push_back and push_front are swapped.
JoinSwapped(m, p) ==
  LET left  == LeftSibling(m, p)
      right == RightSibling(m, p)
      L     == CHOOSE k \in left : TRUE
  IN  [start  |-> IF left = {} THEN p.start ELSE m[L].start,
       end    |-> IF right = {} THEN p.end ELSE m[p.end].end,
       proofs |-> (IF right = {} THEN <<>> ELSE m[p.end].proofs)
                    \o <<p.proof>>
                    \o (IF left = {} THEN <<>> ELSE m[L].proofs)]

\* push_left, push_right and push_both: the proof p between its siblings.
Join(m, p) ==
  LET left  == LeftSibling(m, p)
      right == RightSibling(m, p)
      L     == CHOOSE k \in left : TRUE
  IN  [start  |-> IF left = {} THEN p.start ELSE m[L].start,
       end    |-> IF right = {} THEN p.end ELSE m[p.end].end,
       proofs |-> (IF left = {} THEN <<>> ELSE m[L].proofs)
                    \o <<p.proof>>
                    \o (IF right = {} THEN <<>> ELSE m[p.end].proofs)]

\* Mutant: the right sibling stays in the tree (`get` instead of `remove`).
DetachLeft(m, p) == Restrict(m, DOMAIN m \ LeftSibling(m, p))

Detach(m, p) ==
  Restrict(m, DOMAIN m \ (LeftSibling(m, p) \cup RightSibling(m, p)))

\* split_off(at): `Keep` is what stays in self, `Remainder` what it returns
\* when there are more than `at` proofs.
EndPoint(r, at) == IF r.start + at < r.end THEN r.start + at ELSE r.end

Keep(r, at) ==
  IF at >= Len(r.proofs)
  THEN r
  ELSE [start |-> r.start, end |-> EndPoint(r, at),
        proofs |-> SubSeq(r.proofs, 1, at)]

Remainder(r, at) ==
  [start |-> EndPoint(r, at), end |-> r.end,
   proofs |-> SubSeq(r.proofs, at + 1, Len(r.proofs))]

\* Mutant: a range that reaches the end is taken for the full one.
WitnessToEnd(r, full) ==
  [start |-> r.start, end |-> r.end, proofs |-> r.proofs,
   is_complete |-> r.end = full]

\* into_witness
Witness(r, full) ==
  [start |-> r.start, end |-> r.end, proofs |-> r.proofs,
   is_complete |-> r.start = 0 /\ r.end = full]

-----------------------------------------------------------------------------
(* The reduction. *)

\* The labelled first-layer inputs; a lone input is marked complete by
\* get_first_layer_inputs (one shard and no deferred proof).
FirstLayer(n) ==
  {[start |-> i, end |-> i + 1,
    proofs |-> <<[lo |-> i, hi |-> i + 1, is_complete |-> FALSE]>>,
    is_complete |-> n = 1] : i \in 0..(n - 1)}

Init ==
  /\ inputs \in 1..MaxInputs
  /\ reduce_batch_size \in BatchSizes
  /\ full_range = inputs
  /\ flight = FirstLayer(inputs)
  /\ map = <<>>
  /\ status = "reducing"
  /\ result = <<>>

\* The body of the `while let` loop of reduce_proofs for a proof that is not
\* complete: the new (map, flight) after p was received.
AddToTree(m, f, p, full, size) ==
  LET joined == Join(m, p)
      rest   == Detach(m, p)
      kept   == Keep(joined, size)
      tree   == IF size < Len(joined.proofs)
                THEN Insert(rest, Remainder(joined, size))
                ELSE rest
      ready  == \/ Len(kept.proofs) = size
                \/ kept.start = 0 /\ kept.end = full
  IN  IF LeftSibling(m, p) \cup RightSibling(m, p) = {}
      THEN <<Insert(m, joined), f>>
      ELSE IF ready
           THEN <<tree, f \cup {Witness(kept, full)}>>
           ELSE <<Insert(tree, kept), f>>

\* reduce_proofs receives the proof of a batch that was in flight.
Receive(b) ==
  LET p   == RecursionProof(b)
      add == AddToTree(map, flight \ {b}, p, full_range, reduce_batch_size)
  IN  /\ status = "reducing"
      /\ b \in flight
      /\ ~(p.start = 0 /\ p.end = full_range)
      /\ map' = add[1]
      /\ flight' = add[2]
      /\ UNCHANGED <<inputs, full_range, reduce_batch_size, status, result>>

\* Mutants: a proof that reaches the end of the range is taken for the full
\* one; and the batch size is not brought down to two.
ReturnAtEnd(b) ==
  LET p == RecursionProof(b)
  IN  /\ status = "reducing"
      /\ b \in flight
      /\ p.end = full_range
      /\ result' = <<p.proof>>
      /\ status' = "done"
      /\ flight' = flight \ {b}
      /\ UNCHANGED <<inputs, full_range, reduce_batch_size, map>>

ReturnByFour(b) ==
  LET p == RecursionProof(b)
  IN  /\ status = "reducing"
      /\ b \in flight
      /\ p.start = 0 /\ p.end = full_range
      /\ result' = <<p.proof>>
      /\ status' = IF reduce_batch_size = 2 THEN "done" ELSE "panic"
      /\ UNCHANGED <<inputs, full_range, reduce_batch_size, flight, map>>

\* reduce_proofs receives a proof with the full range and returns it; compress
\* returns it too if the batch size is 2, and otherwise halves the batch size
\* and starts over with the proof as the only one, in a new tree.
Return(b) ==
  LET p    == RecursionProof(b)
      half == reduce_batch_size \div 2
  IN  /\ status = "reducing"
      /\ b \in flight
      /\ p.start = 0 /\ p.end = full_range
      /\ result' = <<p.proof>>
      /\ UNCHANGED inputs
      /\ IF reduce_batch_size = 2
         THEN /\ status' = "done"
              /\ flight' = flight \ {b}
              /\ UNCHANGED <<full_range, reduce_batch_size, map>>
         ELSE /\ status' = IF half > 1 THEN "reducing" ELSE "panic"
              /\ full_range' = 1
              /\ reduce_batch_size' = half
              /\ flight' = (flight \ {b}) \cup
                           {[start |-> 0, end |-> 1, proofs |-> <<p.proof>>,
                             is_complete |-> p.proof.is_complete]}
              /\ map' = <<>>

\* compress has returned.
Returned == status # "reducing" /\ UNCHANGED vars

Next == (\E b \in flight : Receive(b) \/ Return(b)) \/ Returned

\* Every batch handed out is executed, proved and sent back by tasks that the
\* tokio runtime keeps polling.
Spec == Init /\ [][Next]_vars /\ WF_vars(\E b \in flight : Receive(b) \/ Return(b))
-----------------------------------------------------------------------------
(* Properties. *)

\* Everything that still has to end up in the result.
Items == flight \cup Range(map)

Chain(s) == \A i \in 1..(Len(s) - 1) : s[i].hi = s[i + 1].lo

\* The state has the types of the fields of CompressTree and of the locals of
\* compress, and an entry of the map is filed under the start of its range.
TypeOK ==
  /\ inputs \in Nat \ {0}
  /\ full_range \in Nat \ {0}
  /\ reduce_batch_size \in Nat \ {0}
  /\ flight \subseteq Batch
  /\ DOMAIN map \subseteq Nat
  /\ \A k \in DOMAIN map : map[k] \in RangeProofs /\ map[k].start = k
  /\ status \in {"reducing", "done", "panic"}
  /\ result \in Seq(Proof)

\* The compose program of a batch can be run: there is at least one proof and
\* at most the arity of them, and each proof starts at the leaf where the one
\* before it stopped, in whatever order the proofs came back and however the
\* ranges were split (otherwise `execute(input).unwrap()` of an executor fails).
Composable ==
  status = "reducing" =>
    \A b \in flight : /\ Len(b.proofs) \in 1..reduce_batch_size
                      /\ Chain(b.proofs)

\* into_witness marks a batch complete, and so has the circuit check that the
\* execution is complete, exactly when the batch covers all the inputs, although
\* it decides by the label of the batch and not by what the proofs cover.
CompletionFlagExact ==
  status = "reducing" =>
    \A b \in flight : b.is_complete <=> (Lo(b) = 0 /\ Hi(b) = inputs)

\* No proof is lost (an entry of the map overwritten by `insert`) and none is
\* used twice: every first-layer input is covered once.
EveryInputOnce ==
  status = "reducing" =>
    \A x \in 0..(inputs - 1) :
      Cardinality({r \in Items : Lo(r) <= x /\ x < Hi(r)}) = 1

\* The reduction cannot get stuck: while compress waits for a proof, one is on
\* its way. All proofs being in the tree would leave reduce_proofs waiting for
\* ever, because compress itself holds a sender of its channel.
NeverStuck == status = "reducing" => flight # {}

\* What compress returns is one proof of everything, in order and complete.
ReturnsFullProof ==
  status = "done" =>
    result = <<[lo |-> 0, hi |-> inputs, is_complete |-> TRUE]>>

\* compress returns.
Completes == <>(status = "done")
=============================================================================
