# A TLA+ verification of the SP1 proving pipeline

The repository proves that a RISC-V program ran as it should. The program is
executed and cut into *shards*, every shard is traced into a record and proved,
and the proofs are compressed by recursion into one. This directory models the
parts of that pipeline where several actors, several shards or several layers
have to agree, and the two clients that have others do the proving: the network
prover and the CUDA client. TLC checks the models, and TLAPS proves the
properties of the reduction tree, of the worker queue, of the record pipeline and
of the network prover for every value of their constants.

## The system and its parts

| Part | Where | Model |
| --- | --- | --- |
| Executor: runs the program, writes a checkpoint per shard, replays one from it | `crates/core/executor` | `ShardExecution` |
| `MachineExecutor::execute`: main loop of checkpoints, record workers that trace them and take turns | `crates/core/machine/src/executor.rs` | `RecordPipeline`, `ShardChain` |
| `AsyncTurn` | `crates/core/machine/src/utils/concurrency.rs` | `RecordPipeline` |
| Memory permits of the record buffer | `crates/hypercube/src/prover/memory_permit.rs` | `RecordPipeline` |
| `ExecutionRecord::defer`, `append`, `split` | `crates/core/executor/src/record.rs` | `RecordSplit` |
| Constraints on the public values of a shard, ends of the memory and page tables | `record.rs`, `memory/global.rs`, `memory/page_prot_global.rs` | `ShardConstraints` |
| `verify` of a core proof, the links between shards | `crates/prover/src/verify.rs` | `CoreVerify` |
| `LocalProver::prove_core` | `crates/prover/src/local.rs` | `RecordPipeline` |
| `LocalProver::compress`: feeder, executors, prover controller, reduce loop | `crates/prover/src/local.rs` | `CompressPipeline` |
| `CompressTree` and `RangeProofs` | `crates/prover/src/local.rs` | `CompressTree` |
| `WorkerQueue` | `slop/crates/futures/src/queue.rs` | `WorkerQueue` |
| Recursion programs: what they assert and compute on public values | `crates/recursion/circuit/src/machine`, `local.rs` | `RecursionChain` |
| The older `prove_core`, which sorts proofs by key | `crates/core/machine/src/utils/prove.rs` | `StreamProver` |
| `NetworkProver::prove_impl`: request, poll, retry, fallback, 2FA | `crates/sdk/src/network` | `NetworkProver` |
| CUDA client: one server and stream per device, proving keys | `crates/cuda`, `crates/sdk/src/cuda` | `CudaClient` |
| `syscall_halt` of the guest, `commit` syscalls | `crates/zkvm/entrypoint`, `crates/core/executor/src/syscalls` | `ShardChain` |

They interact in this order. The main loop executes to the end of a shard and
sends the checkpoint to a worker. Workers acquire memory, trace concurrently,
and then take turns in the order of the checkpoints: a turn completes the public
values of its record from what the shards before it left, defers precompile and
memory events, and splits off the deferred shards. Records go to `prove_core`,
which proves them concurrently and collects the proofs in order. `verify` links
the public values of neighbouring shards. `compress` feeds the proofs to the
recursion and reduces what comes back, in any order, to one proof; the recursion
programs make the verifier's links part of that proof. A client may have a
network of provers, or a server on a CUDA device, do all this instead.

The complete list, with the parts that are not modelled and why, is
`components` in `PROJECT.json`.

## Modules

**CompressTree** (`local.rs` 300–402, 693–860). The state is the `BTreeMap` of
`RangeProofs`, the locals of `compress`, and the batches in flight. A proof is
the interval of first-layer inputs it covers; its label, the `shard_range` that
`split_off` computes from counts, is separate from that interval. `Receive` is
one iteration of `reduce_proofs` and `Return` the end of one pass of the loop in
`compress`. This is the abstract specification of the reduction.

**CompressPipeline** (`local.rs` 273–402, 799–845). The feeder task, executor
threads, controller, reducer and their channels; each await is a step.
It implements CompressTree: the property `ImplementsTree` is the abstract
specification under the refinement mapping that puts everything between the
feeder and the tree's channel in flight. Recursion proving is one step.

**WorkerQueue** (`queue.rs`). `pop` and `drop` in their two steps each (permit
and worker), with waiting, wake-up and cancellation of the semaphore's future.

**RecordPipeline** (machine `executor.rs` 63–378, `concurrency.rs`,
`memory_permit.rs` 35–44 and 158–172, `local.rs` 190–254). The checkpoint loop, workers with one
action per await, turns with registered wakers, the tokio semaphore in its FIFO
order (external), and `prove_core`'s select over records and proofs. An execution
error of the main loop ends it. A worker panics in three places: `acquire` refuses a
size above the buffer, the turn of its checkpoint has passed, or the guest's exit
code is not zero. The last is found in the trace of the checkpoint that has the
HALT, which is the last one, before its turn. Other panics and error returns in a
trace need a checkpoint that is not the main loop's and are left out.

**ShardChain**, **RecordSplit**, **ShardConstraints**, **CoreVerify**. One turn
is one action: trace a shard (cut anywhere), update the state, split, give
deferred shards their values. Programs are short sequences of the instructions
that reach public values, ending with `syscall_halt`. A program also says at which
instruction the words of each digest were stored, because a shard that runs ahead
to a commit reads them from the memory of its own checkpoint (`Touched`): a word
stored before the shard is zero there. Only data is lost so; that the guest takes
the same branches with those zeros is assumed. A HALT with an exit code other than
zero has no turn, as `RecordPipeline` says. The constraints and the
verifier's checks are operators over the chain. Field inverses are modelled by
the number they invert, timestamps split at `LowLimit` and not at 2^24.

**ShardExecution** (executor `executor.rs`, `syscalls/`, machine `executor.rs`
418–477). The executor is one record, `rt`, with the fields of the code: memory,
uninitialized memory (hints), the two checkpoint maps, the unconstrained block's
diff, local memory events and counts. `Access` stands for `mr`, `mw`, `rr`, `rw`
and their traced forms, which differ in the configuration (`mode`) only. `Cycle`
is `execute_cycle` of the first pass, with the end of a shard and its checkpoint
in the same step; `TraceCheckpoint` recovers an executor from the next checkpoint
and runs the shard in Trace mode, then ahead to the end of the program if the
shard committed. Tracing needs no interleaving: a traced shard depends on its
checkpoint alone. An unconstrained block is one instruction with a body, since
nothing can happen between its steps. Two fields are history: `log`, the accesses
of a shard, and `peeks`. The commits of the guest come in order and input is read
into fresh buffers, as `syscall_halt` and `read_vec_raw` do.

**StreamProver** (`utils/prove.rs` 246–265) extends ShardChain: the key of a proof
and the order of keys as the code compares them, limb by limb.

**RecursionChain** (recursion `machine/*.rs`, `local.rs` 267–297 and 568–672,
`verify.rs` 424–474) extends ShardChain too. The shards are those of a chain that
have a proof (`Provable`: the constraints hold), or
some of them left out, repeated or swapped, and `deferred_proofs` the proofs given
to `compress`. The programs are operators from public values to public values,
with what they assert as a condition: `NormalizePv` of one shard, `DeferredPv` of a
deferred proof, `CompressPv` of neighbours. `Reduce` takes any group of neighbours, so
every shape the tree can have is a behaviour, and `Shrink` is the root program. A
digest of deferred proofs is the number their digits make, and the global sum of the
i-th shard is 16^i, so that sums are equal only if they are of the same shards.

**NetworkProver** (`network/prover.rs`, `client.rs`, `retry.rs`, `tee/client.rs`).
The state is the locals of `prove_impl` and of what it calls, `pc` names the call
it is in, and `requests` is what the network knows (external). Time is `Tick`, in
units in which a deadline or a timeout passes; counters stop one above their limit.
A call to the network succeeds, fails for good, fails and is retried, or is
carried out while its answer is lost. `Transfer` are the uploads and the download
of artifacts, `Step` everything else. Builds and options (auction or reserved, 2FA,
timeouts, whitelists, simulation) are the initial states.

**CudaClient** (`cuda/src`, `sdk/src/cuda/mod.rs`). Tasks connect to one device,
set up and clone keys, and call. `clients` are the `CudaClientInner` there have been,
with the requests and responses in each one's socket; `Live` is the weak reference
in `CLIENT`. Writing and reading a message are two steps each (length and body),
`DropFuture` drops the future of a task in any await, a request longer than the
u32 before it can say spoils its stream (`LenLimit`, 2^32 in the code), and the drop of a key spawns
a task that destroys it. The server answers in order and gives each setup a new id
(external); it may crash. Only the native build is modelled.

## Runs

| Run | Question | Bounds, and why they suffice |
| --- | --- | --- |
| `compress_tree` | Is every batch composable, every input used once, and does the reduction end with one full proof? | 8 inputs, arity 2 and 4: two further levels for arity 2 and every kind of split |
| `compress_pipeline` | Do the tasks and channels implement the tree, and is nothing under way at the return? | 5 inputs, 2 executors, arity 2 and 4: one executor can lag behind the other |
| `worker_queue` | Does the unwrap in `pop` hold, is every worker returned and every waiter served? | 2 workers, 4 callers: two wait while two work |
| `record_pipeline` | Are turns and proofs in order and complete, is no memory leaked, does it end? | 2 workers, 3 checkpoints of sizes 1 and 3, 1 deferred shard, requests in chunks of 2, exit codes 0 and 1: reuse of a worker and partial requests happen, and the panic at the exit code meets every state of the other worker |
| `record_buffer` | What can get stuck if the buffer is too small? | as above, sizes 2, 3, 5 and a buffer of 4: sizes that fit alone, not together, and not at all |
| `shard_chain` | Do the public values of every chain satisfy the constraints and the verifier, and do memory and page ranges fit their tables, wherever shards are cut? | Two kinds of execution: 2 instructions before the halt, 3 precompile codes (one retained), threshold 2: remainders, full chunks and commits cut by a boundary, with their words stored before, in or after the shard that runs ahead; and, after a short program, 6 addresses and 2 pages with capacities of 4 and 2: empty, full and partial slices, packed or not |
| `shard_execution` | Does a replayed shard do what the first pass did, and does its memory argument balance? | 3 instructions and the halt, cut anywhere, one register, an address of the image and one for input, words of two "bytes" of one bit: a word can be hinted, first touched and used again in three different shards, inside or outside an unconstrained block |
| `recursion_chain` | Does a compressed proof exist exactly for what the core verifier and the execution accept? | up to 3 shards out of a chain, 2 deferred proofs, trees of arity 2 and 3, nonces zero and not, a commit that no shard runs ahead to: a shard may be missing, twice or out of order, and a deferred proof may be another one |
| `network_prover` | Is the returned proof the right one, is a request never repeated while it is proved, and does the call return? | timeouts of 1 and 2 units, one lost answer: a deadline can pass in every await, before or after the auction's, and the lost request may be the first or the fallback |
| `cuda_client` | Do results reach their calls and keys outlive their uses, is there one server, and do calls return? | 2 tasks, 3 calls, 1 key, 2 servers, one fault, which is a dropped future, a crash or a request that is too long: both tasks can share a stream, and a second client can follow the first |

In `cuda_client` three calls do not reach the shrink and wrap stages of a proof,
which use the same call as core and compress. A larger instance (two keys, two
calls per task, 27 million states) was checked once for the invariants.

Two runs end in a violation. They compare a comment with what the code does:

- `peeks_current`: a hinted word that was not accessed yet is zero for
  `double_word`, which partial stores, WRITE and precompiles use.
- `deferred_nonce`: the nonce for deferred inputs is read from a shard's public
  values as if they were the recursion's, and is zero. An execution with a nonce
  and with deferred proofs cannot be compressed.

Some properties name the one case in which the code does not do what one would
expect. They hold with the exception, and fail without it:

- `NonceKeptUnlessPacked`: the record that page events are packed into gets nonce
  zero (`record.rs` 288), which the verifier refuses if the nonce is not zero.
- `TablesControlledUnlessAlone`: room for exactly one finalize event puts address
  zero alone into a shard, which the table does not allow (`global.rs` 445).
- `RunAheadRightIfTouched`: `trace_checkpoint` runs on to the end of the program
  with the memory of one shard's checkpoint, so a word that only earlier shards
  touched is zero there and the digest may be wrong.
- `PublicValuesSatisfiedUnlessMissed`, `CommitsShownUnlessMissed`: the same seen from
  the chain. A digest is wrong only in a shard that ran ahead to a commit whose word
  was stored before it (`Missed`). Without such a shard every one that commits, and
  every one after it, shows the digest of the program.
- `NoWorkerDiesUnlessExit`, `ResultCompleteUnlessExit`: an exit code other than zero
  panics the worker of the last checkpoint. Nobody awaits its handle, and `prove_core`
  may return a proof without the last records. Both hold for records that fit into
  the buffer; a larger one panics its worker too, in `acquire`, and nobody notices.
- `StreamCollects`: two precompile shards of one program have equal keys, and one
  of their proofs is lost; addresses above the first limb are sorted wrongly.
- `RecursionCompleteUnlessNonce`: the exception is `deferred_nonce`.
- `OwnResponseUnlessDropped`: a call dropped between its request and its response
  leaves the response in the stream, and every later call gets the one before its
  own.
- `OneServerUnlessEarlier`: a client that connects before the previous one's
  `drop` ran may find the previous server, which is then killed.

In the network prover the first request may be assigned and fulfilled while the
fallback is under way: its proof is never fetched. Each of the two rounds has the
whole timeout, although `prove.rs` 43–44 speaks of one.

Deadlock checking is off where a run really ends (a program that is proved, a
permit that waits for ever in the small buffer); `StuckOnlyForMemory`, the
liveness properties and the theorem `Progress` state which stops are right.

`record_buffer` uses sizes above the buffer; the real buffer is configured far
above a record. `record_pipeline` assumes room for one record of
every worker (`RoomForAll`), which is what the liveness needs: the deadlock that
`StuckOnlyForMemory` names is reachable without it.

## Fairness

Weak fairness of each task: tokio polls a woken task eventually, OS threads are
scheduled, and proving ends. Nothing is assumed about the order of arrival, of
select branches, or about which waiter runs first, beyond the FIFO order
of tokio's semaphore. In the network prover time passes, an RPC answers or fails
within the timeout of its channel (60 s) and its retries end with their limit; that
a prover ever takes or fulfils a request is not assumed. The code sets no limit on
the wait for the TEE server nor on the upload and download of an artifact, so
`Transfer` has no fairness and `Returns` makes an exception for both. In the CUDA
client a server that runs answers the requests it has read: nothing in the code
bounds the wait for a response, and a server that hangs would hold the call and the
lock of the stream for ever. Tasks may stop making calls; `Returns` makes an
exception for a stream on which a call was dropped in the middle of a message or a
request was too long.

## What is proved

`CompressTreeProofs` proves for every number of inputs and every arity above one
(`TypeCorrect`, `AlwaysComposable`, `CompletionExact`, `Progress`,
`ResultCorrect`): types, composable batches, the exact completion flag, that
`reduce_proofs` never waits with nothing in flight, and that the result covers
all inputs. The invariants are not inductive alone, since labels are computed
from counts. The inductive invariant `IInv` says in addition that the labels of the
entries of the tree and of the batches in flight tile the full range, that
labels which touch cover leaves which touch, that a range holds no more proofs
than its label is long (which keeps `split_off`'s end point inside the range),
and that no two neighbours wait side by side in the tree. The proof has a step
per action, and lemmas for joining, splitting and inserting ranges.

`WorkerQueueProofs` proves `TypeCorrect`, `PopFindsWorker` and `NoWorkerLost` for
every finite set of workers and of callers. That a caller with a permit
finds a worker is not inductive: `IInv` adds that the permits that are free, assigned
or being returned balance the workers in the queue (`Balance`), that exactly the
callers in their critical section have a worker (`GuardsWork`), and that the line of
the semaphore holds callers that wait, each once (`Line`).

`NetworkProverProofs` proves the safety properties of the network prover
(`ReturnsOwnProof`, `ReturnsInTime`, `AtMostOneFallback`, `ReturnsTrueErrors`, and
the action property `KeepsAssigned`) for all timeouts and any number of lost
answers. `IInv` says which requests were made in which round and with which
whitelist (`Rounds`), that the network has the known and the lost ones (`Count`),
that what the client remembers of a status is still true of the request (`Seen`),
and what holds of the result when it is chosen (`Outcome`) and of the deadline after
that (`Late`). Assumed are only that timeouts and the bound on lost answers are
natural numbers.

Four modules prove the order of the record pipeline, for any finite set of workers,
any number of checkpoints and deferred shards, and every buffer. `OrderKept`, that
turns and proofs are in the order of the checkpoints with none missing and none
twice, holds without a condition. `OnlyExitPanics` (the one worker that can panic is
that of the last checkpoint, at an exit code other than zero) and `ProofComplete` (a
returned proof has all records, or all but those of that checkpoint) hold if every
record fits in the buffer (`Fits`). The order of `shard_proofs` alone is not inductive. `IInv` follows
the whole line of records, from `shard_proofs` back to what the worker in turn has
still to send, and says why there is one such worker: every checkpoint whose turn
has not ended is in one channel or with one worker (`Turns`, `Inboxes`), and the
state has the turns that ended and the one being sent (`Updates`). For records
that fit, `Good` adds that one worker at most is dead, with the last checkpoint, and
every other such checkpoint is in a channel or with a worker that lives (`Alive`);
that the checkpoint with a refused exit code is the last one and is never traced to
the end (`Refused`); and that a channel has the last checkpoint behind all others, so
that none is lost with it (`Last`). `Over` says that nothing is left once a proof is
returned. `RecordLineProofs` has the lemmas about lines, `RecordWorkerProofs` the
steps before a turn, `RecordPipelineProofs` the others and `OrderKept`, and
`RecordResultProofs` the two theorems about records that fit.

The types and two properties of these modules (`NeverStuck`, `ProofInTime`) are
proved and have no run of their own. In the other modules the type invariant is
part of another invariant of the run.

`EveryInputOnce`, `MemoryAccounted`, all liveness, and the invariants of the modules
without proofs are only model-checked. Three things are out of the prover's reach: liveness under fairness
and `ENABLED`, induction over data (what a fold or recursive function computes for
every input), and modules with RECURSIVE operators. The invariants of the shard
chain, the recursion chain and the executor are of the second kind: they relate
folds over shards or accesses.

## Not modelled

Cryptography, AIR row constraints, instruction and precompile semantics, the
recursion compiler, gnark, the SDK's forwarding layers, file and process I/O:
data functions over large fields, or I/O without a protocol. Most of the
repository's lines are of this kind.

Of the modelled parts: page protections of untrusted programs; the error returns
of `execute_cycle`, except that the main loop may end with one (`RecordPipeline`)
and that the trace of the last checkpoint refuses an exit code; `increase`, `split` and `release` of memory permits, which nothing
calls; the threads of the older prover; the network client's calls that are one
request each (balances, `request_async`); the docker build of the CUDA server, its
download, and the server itself; the Merkle path of a verification key in the
recursion.
