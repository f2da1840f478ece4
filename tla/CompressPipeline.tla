--------------------------- MODULE CompressPipeline ---------------------------
(***************************************************************************)
(* The tasks of `LocalProver::compress` (crates/prover/src/local.rs) and    *)
(* the channels between them:                                              *)
(*                                                                         *)
(*   feeder    --+                +-- executor --+                         *)
(*               +-- WorkerQueue -+              +-> prove_task channel    *)
(*   reduce loop-+                +-- executor --+          |              *)
(*        ^                                                 v              *)
(*        +------- compress_tree channel <------- prover controller        *)
(*                                                                         *)
(* The feeder sends the first-layer inputs to the executors, and so does   *)
(* the reduce loop with the batches that it forms; each executor is a      *)
(* blocking thread with an unbounded queue of its own; the controller      *)
(* keeps the shard proofs that are under way in two FuturesUnordered.      *)
(*                                                                         *)
(* This module implements CompressTree: everything on its way through the  *)
(* tasks and channels is that module's `flight`. Its operators on batches  *)
(* and on the tree are used from there. A popped WorkerQueue guard is one  *)
(* action here, which module WorkerQueue justifies.                        *)
(***************************************************************************)
EXTENDS Integers, Sequences, FiniteSets, SequencesExt

CONSTANTS MaxInputs, BatchSizes,
          Executors,   \* the num_recursion_executors blocking threads
          NoExecutor   \* no WorkerQueue guard is held

ASSUME ExecutorsAssumption == IsFiniteSet(Executors) /\ Executors # {}

ASSUME NoExecutorAssumption == NoExecutor \notin Executors

VARIABLES
  inputs, full_range, reduce_batch_size, map, status, result,  \* as in CompressTree
  unsent,     \* first-layer inputs the feeder still has to send
  feeder,     \* the executor whose guard the feeder holds
  handing,    \* the batch reduce_proofs is about to send, if there is one
  reducer,    \* the executor whose guard reduce_proofs holds
  idle,       \* recursion_executors: the executors in the WorkerQueue
  tasks,      \* the channel of each executor
  executing,  \* the task each executor has taken from its channel, if any
  prove_rx,   \* the prove_task channel
  proving,    \* setup_and_prove_tasks and prove_tasks
  tree_rx     \* the compress_tree channel

loop == <<inputs, full_range, reduce_batch_size, map, status, result>>

vars == <<inputs, full_range, reduce_batch_size, map, status, result, unsent, feeder,
          handing, reducer, idle, tasks, executing, prove_rx, proving, tree_rx>>

\* Every batch that was handed out and whose proof was not received.
Flight ==
  ToSet(unsent) \cup ToSet(handing) \cup ToSet(prove_rx) \cup proving \cup ToSet(tree_rx)
    \cup UNION {ToSet(tasks[e]) \cup ToSet(executing[e]) : e \in Executors}

Tree == INSTANCE CompressTree WITH flight <- Flight

-----------------------------------------------------------------------------

Init ==
  /\ inputs \in 1..MaxInputs
  /\ reduce_batch_size \in BatchSizes
  /\ full_range = inputs
  /\ map = <<>>
  /\ status = "reducing"
  /\ result = <<>>
  /\ unsent = SetToSortSeq(Tree!FirstLayer(inputs), LAMBDA r, s : r.start < s.start)
  /\ feeder = NoExecutor
  /\ handing = <<>>
  /\ reducer = NoExecutor
  /\ \E s \in SetToSeqs(Executors) : idle = s
  /\ tasks = [e \in Executors |-> <<>>]
  /\ executing = [e \in Executors |-> <<>>]
  /\ prove_rx = <<>>
  /\ proving = {}
  /\ tree_rx = <<>>

\* Mutant: the feeder pops an executor before it looks for another input.
FeederPopAhead ==
  /\ feeder = NoExecutor
  /\ idle # <<>>
  /\ feeder' = Head(idle)
  /\ idle' = Tail(idle)
  /\ UNCHANGED <<loop, unsent, handing, reducer, tasks, executing, prove_rx, proving, tree_rx>>

\* The feeder's pop().await for the next input.
FeederPop ==
  /\ unsent # <<>> /\ feeder = NoExecutor
  /\ idle # <<>>
  /\ feeder' = Head(idle)
  /\ idle' = Tail(idle)
  /\ UNCHANGED <<loop, unsent, handing, reducer, tasks, executing, prove_rx, proving, tree_rx>>

\* The feeder sends the input; its guard goes out of scope, so the executor is
\* back in the queue at once.
FeederSend ==
  /\ unsent # <<>> /\ feeder # NoExecutor
  /\ tasks' = [tasks EXCEPT ![feeder] = Append(@, Head(unsent))]
  /\ unsent' = Tail(unsent)
  /\ idle' = Append(idle, feeder)
  /\ feeder' = NoExecutor
  /\ UNCHANGED <<loop, handing, reducer, executing, prove_rx, proving, tree_rx>>

\* An executor takes a task from its channel.
ExecutorRecv(e) ==
  /\ executing[e] = <<>>
  /\ tasks[e] # <<>>
  /\ executing' = [executing EXCEPT ![e] = <<Head(tasks[e])>>]
  /\ tasks' = [tasks EXCEPT ![e] = Tail(@)]
  /\ UNCHANGED <<loop, unsent, feeder, handing, reducer, idle, prove_rx, proving, tree_rx>>

\* Mutant: a task is dropped when the executor has another one waiting.
ExecutorDoneDrop(e) ==
  /\ executing[e] # <<>>
  /\ prove_rx' = IF tasks[e] = <<>> THEN Append(prove_rx, Head(executing[e])) ELSE prove_rx
  /\ executing' = [executing EXCEPT ![e] = <<>>]
  /\ UNCHANGED <<loop, unsent, feeder, handing, reducer, idle, tasks, proving, tree_rx>>

\* It runs the recursion program, whose assertions hold only for proofs that
\* follow on from one another (otherwise the unwrap ends the thread, which
\* never sends), and sends the record on.
ExecutorDone(e) ==
  /\ executing[e] # <<>>
  /\ Tree!Chain(Head(executing[e]).proofs)
  /\ prove_rx' = Append(prove_rx, Head(executing[e]))
  /\ executing' = [executing EXCEPT ![e] = <<>>]
  /\ UNCHANGED <<loop, unsent, feeder, handing, reducer, idle, tasks, proving, tree_rx>>

\* The controller starts proving a record.
ControllerRecv ==
  /\ prove_rx # <<>>
  /\ proving' = proving \cup {Head(prove_rx)}
  /\ prove_rx' = Tail(prove_rx)
  /\ UNCHANGED <<loop, unsent, feeder, handing, reducer, idle, tasks, executing, tree_rx>>

\* One of the proofs under way is finished and sent to the tree.
ControllerProved(b) ==
  /\ b \in proving
  /\ proving' = proving \ {b}
  /\ tree_rx' = Append(tree_rx, b)
  /\ UNCHANGED <<loop, unsent, feeder, handing, reducer, idle, tasks, executing, prove_rx>>

\* reduce_proofs receives a proof that is not complete, up to the pop of an
\* executor.
Receive ==
  /\ status = "reducing" /\ handing = <<>>
  /\ tree_rx # <<>>
  /\ LET p   == Tree!RecursionProof(Head(tree_rx))
         add == Tree!AddToTree(map, {}, p, full_range, reduce_batch_size)
     IN  /\ ~(p.start = 0 /\ p.end = full_range)
         /\ map' = add[1]
         /\ handing' = SetToSeq(add[2])
  /\ tree_rx' = Tail(tree_rx)
  /\ UNCHANGED <<inputs, full_range, reduce_batch_size, status, result, unsent, feeder,
                 reducer, idle, tasks, executing, prove_rx, proving>>

ReducerPop ==
  /\ handing # <<>> /\ reducer = NoExecutor
  /\ idle # <<>>
  /\ reducer' = Head(idle)
  /\ idle' = Tail(idle)
  /\ UNCHANGED <<loop, unsent, feeder, handing, tasks, executing, prove_rx, proving, tree_rx>>

ReducerSend ==
  /\ reducer # NoExecutor
  /\ tasks' = [tasks EXCEPT ![reducer] = Append(@, Head(handing))]
  /\ handing' = <<>>
  /\ idle' = Append(idle, reducer)
  /\ reducer' = NoExecutor
  /\ UNCHANGED <<loop, unsent, feeder, executing, prove_rx, proving, tree_rx>>

\* reduce_proofs receives the proof of the full range, and compress returns it
\* or starts over with half the batch size and sends the proof to itself.
Return ==
  /\ status = "reducing" /\ handing = <<>>
  /\ tree_rx # <<>>
  /\ LET p    == Tree!RecursionProof(Head(tree_rx))
         half == reduce_batch_size \div 2
     IN  /\ p.start = 0 /\ p.end = full_range
         /\ result' = <<p.proof>>
         /\ IF reduce_batch_size = 2
            THEN /\ status' = "done"
                 /\ tree_rx' = Tail(tree_rx)
                 /\ UNCHANGED <<full_range, reduce_batch_size, map>>
            ELSE /\ status' = IF half > 1 THEN "reducing" ELSE "panic"
                 /\ full_range' = 1
                 /\ reduce_batch_size' = half
                 /\ tree_rx' = Append(Tail(tree_rx),
                      [start |-> 0, end |-> 1, proofs |-> <<p.proof>>,
                       is_complete |-> p.proof.is_complete])
                 /\ map' = <<>>
  /\ UNCHANGED <<inputs, unsent, feeder, handing, reducer, idle, tasks, executing,
                 prove_rx, proving>>

\* compress has returned and every channel is empty.
Returned == status # "reducing" /\ Flight = {} /\ UNCHANGED vars

Executor(e) == ExecutorRecv(e) \/ ExecutorDone(e)

Controller == ControllerRecv \/ \E b \in proving : ControllerProved(b)

Feeder == FeederPop \/ FeederSend

Reducer == Receive \/ ReducerPop \/ ReducerSend \/ Return

Next == Feeder \/ (\E e \in Executors : Executor(e)) \/ Controller \/ Reducer \/ Returned

\* Each task is polled, and each blocking thread runs, until it has nothing to
\* do; a pop of the WorkerQueue is served (property Served of WorkerQueue).
Spec ==
  /\ Init /\ [][Next]_vars
  /\ WF_vars(Feeder) /\ WF_vars(Controller) /\ WF_vars(Reducer)
  /\ \A e \in Executors : WF_vars(Executor(e))

-----------------------------------------------------------------------------
(* Properties. *)

\* The variables have the types of the channels and of the locals of compress.
TypeOK ==
  /\ Flight \subseteq Tree!Batch
  /\ unsent \in Seq(Tree!Batch) /\ tree_rx \in Seq(Tree!Batch) /\ prove_rx \in Seq(Tree!Batch)
  /\ feeder \in Executors \cup {NoExecutor} /\ reducer \in Executors \cup {NoExecutor}
  /\ idle \in Seq(Executors)
  /\ tasks \in [Executors -> Seq(Tree!Batch)]
  /\ \A s \in {handing} \cup Range(executing) : s \in Seq(Tree!Batch) /\ Len(s) <= 1

\* The tasks and channels implement the reduction of CompressTree, its liveness
\* included: no batch is lost, duplicated or changed on its way, and compress
\* returns the proof of everything.
ImplementsTree == Tree!Spec

\* compress returns only when nothing is under way: the controller and the
\* executors unwrap the results of their sends, which fail once compress has
\* dropped the receiver of the tree and the executors. Until then everything under way
\* is of its type.
QuietAtReturn ==
  /\ TypeOK
  /\ status = "done" => Flight = {} /\ feeder = NoExecutor /\ reducer = NoExecutor
===============================================================================
