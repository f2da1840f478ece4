---------------------------- MODULE RecordPipeline ----------------------------
(***************************************************************************)
(* Record generation and core proving, as concurrent tasks: the main loop  *)
(* and the record workers of `MachineExecutor::execute`                    *)
(* (crates/core/machine/src/executor.rs), the AsyncTurn that orders the    *)
(* workers (crates/core/machine/src/utils/concurrency.rs), the memory      *)
(* permits (crates/hypercube/src/prover/memory_permit.rs), and the task of *)
(* `LocalProver::prove_core` (crates/prover/src/local.rs) that proves the  *)
(* records.                                                                *)
(*                                                                         *)
(* What a worker does to the shared state in its turn is module            *)
(* ShardChain; here the state is the list of turns taken, each with its    *)
(* number of deferred shards. A record is <<index, j>>: j = 0 is the       *)
(* record of checkpoint `index`, j > 0 its j-th deferred shard.            *)
(***************************************************************************)
EXTENDS Integers, Sequences, FiniteSets, FiniteSetsExt

CONSTANTS Workers,            \* 1..num_record_workers
          MaxCheckpoints,     \* bound on the checkpoints of an execution
          MaxDeferred,        \* bound on the deferred shards of a turn
          RecordSizes,        \* values of total_record_size
          record_buffer_size,
          ExitCodes,          \* exit codes of the guest
          MaxPermit           \* u32::MAX: most permits one acquire_many takes

ASSUME RecordPipelineAssumption ==
  /\ IsFiniteSet(Workers) /\ Workers # {}
  /\ RecordSizes \subseteq Nat /\ MaxCheckpoints \in Nat \ {0} /\ MaxDeferred \in Nat
  /\ {record_buffer_size, MaxPermit} \subseteq Nat \ {0}
  /\ 0 \in ExitCodes

VARIABLES
  status,         \* of execute: running, returned or failed
  index,          \* of the next checkpoint
  exit_code,      \* with which the guest halts in the last checkpoint sent
  queue,          \* the WorkerQueue of the workers' channels
  inbox,          \* the channel of each worker
  pc,             \* where each worker is in its loop
  task,           \* the RecordTask each worker has, or NoTask
  held,           \* bytes of memory permit each worker holds
  out,            \* records each worker has still to send
  available,      \* permits of the memory semaphore
  waiting,        \* workers queued at the semaphore, first come first served
  current_turn,
  wakers,         \* turns with a registered waker
  state,          \* the shared state: the turns taken
  records,        \* the channel to prove_core
  proving,        \* prove_shard_task, a FuturesOrdered
  shard_proofs,
  result          \* of prove_core: none, ok or error

mainVars == <<status, index, exit_code, queue>>

memVars == <<available, waiting>>

turnVars == <<current_turn, wakers, state>>

proverVars == <<proving, shard_proofs, result>>

vars == <<mainVars, inbox, pc, task, held, out, memVars, turnVars, records, proverVars>>

NoTask == [index |-> -1, size |-> 0]

Init ==
  /\ status = "running" /\ index = 0 /\ exit_code = 0
  /\ queue = CHOOSE q \in [1..Cardinality(Workers) -> Workers] : Range(q) = Workers
  /\ inbox = [w \in Workers |-> <<>>]
  /\ pc = [w \in Workers |-> "recv"]
  /\ task = [w \in Workers |-> NoTask]
  /\ held = [w \in Workers |-> 0]
  /\ out = [w \in Workers |-> <<>>]
  /\ available = record_buffer_size /\ waiting = <<>>
  /\ current_turn = 0 /\ wakers = {} /\ state = <<>>
  /\ records = <<>> /\ proving = <<>> /\ shard_proofs = <<>> /\ result = "none"

-----------------------------------------------------------------------------
(* The main loop of execute. *)

\* A checkpoint goes to the worker that was popped least recently: its guard is
\* dropped as soon as the task is sent. A channel whose worker died is closed. The
\* exit code is no error here: only a trace records it (emit_events).
SendTask(size, done, code) ==
  LET w == Head(queue) IN
  /\ status = "running"
  /\ done \/ (index < MaxCheckpoints - 1 /\ code = 0)
  /\ queue' = Append(Tail(queue), w)
  /\ IF pc[w] = "dead"
     THEN status' = "failed" /\ UNCHANGED <<index, exit_code, inbox>>
     ELSE /\ inbox' = [inbox EXCEPT ![w] = Append(@, [index |-> index, size |-> size])]
          /\ index' = index + 1 /\ exit_code' = code
          /\ status' = IF done THEN "returned" ELSE status
  /\ UNCHANGED <<pc, task, held, out, memVars, turnVars, records, proverVars>>

\* generate_checkpoint returns an error or panics.
ExecutionError ==
  /\ status = "running"
  /\ status' = "failed"
  /\ UNCHANGED <<index, exit_code, queue, inbox, pc, task, held, out, memVars, turnVars, records,
                 proverVars>>

-----------------------------------------------------------------------------
(* The loop of a record worker. *)

\* A panic drops what the worker has: its channel with the tasks in it, its task
\* and its memory permit. Nobody awaits its handle.
Panic(w) ==
  /\ pc' = [pc EXCEPT ![w] = "dead"]
  /\ inbox' = [inbox EXCEPT ![w] = <<>>]
  /\ task' = [task EXCEPT ![w] = NoTask]
  /\ held' = [held EXCEPT ![w] = 0]
  /\ available' = available + held[w]

\* acquire refuses a size that is zero or larger than the buffer.
Recv(w) ==
  /\ pc[w] = "recv"
  /\ inbox[w] # <<>>
  /\ LET t == Head(inbox[w]) IN
     IF t.size \in 1..record_buffer_size
     THEN /\ task' = [task EXCEPT ![w] = t]
          /\ inbox' = [inbox EXCEPT ![w] = Tail(@)]
          /\ pc' = [pc EXCEPT ![w] = "acquire"]
          /\ UNCHANGED <<held, available>>
     ELSE Panic(w)
  /\ UNCHANGED <<mainVars, out, waiting, turnVars, records, proverVars>>

\* accquire_raw takes a large permit in several parts.
Part(w) == Min({MaxPermit, task[w].size - held[w]})

Take(w) ==
  /\ available' = available - Part(w)
  /\ held' = [held EXCEPT ![w] = @ + Part(w)]
  /\ pc' = [pc EXCEPT ![w] = IF held'[w] = task[w].size THEN "trace" ELSE "acquire"]

Acquire(w) ==
  /\ pc[w] = "acquire"
  /\ IF waiting = <<>> /\ Part(w) <= available
     THEN Take(w) /\ UNCHANGED waiting
     ELSE /\ waiting' = Append(waiting, w)
          /\ pc' = [pc EXCEPT ![w] = "waiting"]
          /\ UNCHANGED <<available, held>>
  /\ UNCHANGED <<mainVars, inbox, task, out, turnVars, records, proverVars>>

\* The semaphore serves the worker that has waited longest.
Grant(w) ==
  /\ waiting # <<>> /\ w = Head(waiting)
  /\ Part(w) <= available
  /\ Take(w)
  /\ waiting' = Tail(waiting)
  /\ UNCHANGED <<mainVars, inbox, task, out, turnVars, records, proverVars>>

\* The checkpoint ends with a HALT whose exit code is not zero: a recovered executor
\* expects StatusCode::SUCCESS, and trace_checkpoint unwraps its error.
ExitRefused(w) == task[w].index = index - 1 /\ exit_code # 0

Trace(w) ==
  /\ pc[w] = "trace"
  /\ IF ExitRefused(w)
     THEN Panic(w)
     ELSE /\ pc' = [pc EXCEPT ![w] = "turn"]
          /\ UNCHANGED <<inbox, task, held, available>>
  /\ UNCHANGED <<mainVars, out, waiting, turnVars, records, proverVars>>

\* AsyncTurnFuture::poll.
Poll(w) ==
  /\ pc[w] = "turn"
  /\ wakers' = IF current_turn = task[w].index THEN wakers ELSE wakers \cup {task[w].index}
  /\ IF current_turn > task[w].index
     THEN Panic(w)
     ELSE /\ pc' = [pc EXCEPT ![w] =
                      IF current_turn = task[w].index THEN "update" ELSE "parked"]
          /\ UNCHANGED <<inbox, task, held, available>>
  /\ UNCHANGED <<mainVars, out, waiting, current_turn, state, records, proverVars>>

\* The update of the state, under its lock, and the records it gives.
Update(w, deferred) ==
  LET i == task[w].index IN
  /\ pc[w] = "update"
  /\ state' = Append(state, [index |-> i, deferred |-> deferred])
  /\ out' = [out EXCEPT ![w] =
       [j \in 1..(deferred + 1) |->
          [id |-> <<i, j - 1>>, permit |-> IF j = 1 THEN held[w] ELSE 0]]]
  /\ held' = [held EXCEPT ![w] = 0]
  /\ pc' = [pc EXCEPT ![w] = "send"]
  /\ UNCHANGED <<mainVars, inbox, task, memVars, current_turn, wakers, records, proverVars>>

Send(w) ==
  /\ pc[w] = "send"
  /\ out[w] # <<>>
  /\ records' = Append(records, Head(out[w]))
  /\ out' = [out EXCEPT ![w] = Tail(@)]
  /\ UNCHANGED <<mainVars, inbox, pc, task, held, memVars, turnVars, proverVars>>

DropGuardTwice(w) ==
  /\ pc[w] = "send" /\ out[w] = <<>>
  /\ current_turn' = current_turn + 2
  /\ task' = [task EXCEPT ![w] = NoTask]
  /\ pc' = [v \in Workers |->
       IF v = w THEN "recv"
       ELSE IF pc[v] = "parked" /\ task[v].index <= current_turn' THEN "turn" ELSE pc[v]]
  /\ UNCHANGED <<mainVars, inbox, held, out, memVars, wakers, state, records, proverVars>>

DropGuardNoWake(w) ==
  /\ pc[w] = "send" /\ out[w] = <<>>
  /\ current_turn' = current_turn + 1
  /\ task' = [task EXCEPT ![w] = NoTask]
  /\ pc' = [pc EXCEPT ![w] = "recv"]
  /\ UNCHANGED <<mainVars, inbox, held, out, memVars, wakers, state, records, proverVars>>

\* The end of the loop's body drops the AsyncTurnGuard, which wakes the worker
\* whose turn is next if it has been polled.
DropGuard(w) ==
  /\ pc[w] = "send" /\ out[w] = <<>>
  /\ current_turn' = current_turn + 1
  /\ task' = [task EXCEPT ![w] = NoTask]
  /\ pc' = [v \in Workers |->
       IF v = w THEN "recv"
       ELSE IF pc[v] = "parked" /\ task[v].index = current_turn' /\ current_turn' \in wakers
            THEN "turn" ELSE pc[v]]
  /\ UNCHANGED <<mainVars, inbox, held, out, memVars, wakers, state, records, proverVars>>

\* The main loop is over and has dropped the channels: recv returns None.
Stop(w) ==
  /\ pc[w] = "recv" /\ inbox[w] = <<>>
  /\ status # "running"
  /\ pc' = [pc EXCEPT ![w] = "stopped"]
  /\ UNCHANGED <<mainVars, inbox, task, held, out, memVars, turnVars, records, proverVars>>

-----------------------------------------------------------------------------
(* The task of prove_core that proves the records. *)

RecvRecord ==
  /\ records # <<>>
  /\ LET r == Head(records) IN
     proving' = Append(proving, [id |-> r.id, permit |-> r.permit, ready |-> FALSE])
  /\ records' = Tail(records)
  /\ UNCHANGED <<mainVars, inbox, pc, task, held, out, memVars, turnVars, shard_proofs, result>>

ProveShardLeak(i) ==
  /\ ~ proving[i].ready
  /\ proving' = [proving EXCEPT ![i].ready = TRUE, ![i].permit = 0]
  /\ UNCHANGED <<mainVars, inbox, pc, task, held, out, memVars, turnVars, records, shard_proofs,
                 result>>

\* A proof completes, in any order, and its memory permit is dropped.
ProveShard(i) ==
  /\ ~ proving[i].ready
  /\ proving' = [proving EXCEPT ![i].ready = TRUE, ![i].permit = 0]
  /\ available' = available + proving[i].permit
  /\ UNCHANGED <<mainVars, inbox, pc, task, held, out, waiting, turnVars, records, shard_proofs,
                 result>>

NextProofUnordered ==
  \E i \in DOMAIN proving :
    /\ proving[i].ready
    /\ shard_proofs' = Append(shard_proofs, proving[i].id)
    /\ proving' = SubSeq(proving, 1, i - 1) \o SubSeq(proving, i + 1, Len(proving))
    /\ UNCHANGED <<mainVars, inbox, pc, task, held, out, memVars, turnVars, records, result>>

\* FuturesOrdered gives the proofs in the order in which they were pushed.
NextProof ==
  /\ proving # <<>> /\ Head(proving).ready
  /\ shard_proofs' = Append(shard_proofs, Head(proving).id)
  /\ proving' = Tail(proving)
  /\ UNCHANGED <<mainVars, inbox, pc, task, held, out, memVars, turnVars, records, result>>

\* No sender of the records channel is left: execute and every task have one.
SendersGone ==
  /\ status # "running"
  /\ \A w \in Workers : inbox[w] = <<>> /\ pc[w] \in {"recv", "stopped", "dead"}

ReturnEarly ==
  /\ result = "none"
  /\ \/ status = "failed" /\ result' = "error"
     \/ /\ status = "returned"
        /\ records = <<>> /\ proving = <<>>
        /\ result' = "ok"
  /\ UNCHANGED <<mainVars, inbox, pc, task, held, out, memVars, turnVars, records, proving,
                 shard_proofs>>

\* prove_core awaits the executor first, and then the shard proofs.
Return ==
  /\ result = "none"
  /\ \/ status = "failed" /\ result' = "error"
     \/ /\ status = "returned"
        /\ SendersGone /\ records = <<>> /\ proving = <<>>
        /\ result' = "ok"
  /\ UNCHANGED <<mainVars, inbox, pc, task, held, out, memVars, turnVars, records, proving,
                 shard_proofs>>

-----------------------------------------------------------------------------
Worker(w) ==
  \/ Recv(w)
  \/ Acquire(w)
  \/ Grant(w)
  \/ Trace(w)
  \/ Poll(w)
  \/ \E deferred \in 0..MaxDeferred : Update(w, deferred)
  \/ Send(w)
  \/ DropGuard(w)
  \/ Stop(w)

Execute ==
  \/ \E size \in RecordSizes, done \in BOOLEAN, code \in ExitCodes : SendTask(size, done, code)
  \/ ExecutionError

Proving == \E i \in DOMAIN proving : ProveShard(i)

Next ==
  \/ Execute
  \/ \E w \in Workers : Worker(w)
  \/ RecvRecord
  \/ Proving
  \/ NextProof
  \/ Return

Spec == Init /\ [][Next]_vars

\* The runtime polls every task that is ready, and an execution is finite.
Fairness ==
  /\ WF_vars(Execute)
  /\ \A w \in Workers : WF_vars(Worker(w))
  /\ WF_vars(RecvRecord) /\ WF_vars(Proving) /\ WF_vars(NextProof) /\ WF_vars(Return)

FairSpec == Spec /\ Fairness

-----------------------------------------------------------------------------
(* Properties. *)

Ids(s) == [i \in DOMAIN s |-> s[i].id]

TypeOK ==
  /\ status \in {"running", "returned", "failed"} /\ index \in 0..MaxCheckpoints
  /\ exit_code \in ExitCodes
  /\ Range(queue) = Workers
  /\ \A w \in Workers :
       /\ pc[w] \in {"recv", "acquire", "waiting", "trace", "turn", "parked", "update", "send",
                     "stopped", "dead"}
       /\ held[w] \in 0..task[w].size
       /\ \A i \in DOMAIN inbox[w] : inbox[w][i].index < index
  /\ available \in 0..record_buffer_size
  /\ current_turn \in Nat /\ wakers \subseteq 0..(index - 1)
  /\ result \in {"none", "ok", "error"}

Sum(S, f(_)) == FoldSet(LAMBDA x, acc : acc + f(x), 0, S)

SumPermits(s) == Sum(DOMAIN s, LAMBDA i : s[i].permit)

\* Every byte of the record buffer is accounted for exactly once, by a worker, by
\* a record on its way or by a shard being proved, so that the records alive
\* together never exceed the buffer and no permit leaks with a finished proof.
MemoryAccounted ==
  /\ TypeOK
  /\ available + Sum(Workers, LAMBDA w : held[w]) + Sum(Workers, LAMBDA w : SumPermits(out[w]))
       + SumPermits(records) + SumPermits(proving)
     = record_buffer_size

\* The record after record `id`: the next deferred shard of its turn, or the record
\* of the next checkpoint.
Successor(id, turns) ==
  IF id[2] < turns[id[1] + 1].deferred THEN <<id[1], id[2] + 1>> ELSE <<id[1] + 1, 0>>

\* s has all the records of the turns, in the order of the checkpoints.
AllRecords(s, turns) ==
  /\ s = <<>> <=> turns = <<>>
  /\ s # <<>> => /\ s[1] = <<0, 0>>
                 /\ s[Len(s)] = <<Len(turns) - 1, turns[Len(turns)].deferred>>
  /\ \A i \in 1..(Len(s) - 1) : s[i + 1] = Successor(s[i], turns)

\* What the worker in turn has still to send.
Unsent == LET S == {w \in Workers : out[w] # <<>>} IN
          IF S = {} THEN <<>> ELSE Ids(out[CHOOSE w \in S : TRUE])

\* However the workers interleave, the shared state is updated once for every
\* checkpoint, in order; and proofs come out in the order of the checkpoints,
\* each followed by its deferred shards, with none missing and none twice.
ProofsInOrder ==
  /\ \A k \in DOMAIN state : state[k].index = k - 1
  /\ AllRecords(shard_proofs \o Ids(proving) \o Ids(records) \o Unsent, state)

\* prove_core shall "Generate shard proofs which split up and prove the valid
\* execution": if it returns a proof, every checkpoint has had its turn and every
\* record has been proved: the records channel closes no earlier. The exception is a
\* guest that halts with a non-zero exit code: the panic of the worker that traces
\* the last checkpoint goes unnoticed, and the proof lacks that checkpoint's records,
\* and those alone.
ResultCompleteUnlessExit ==
  result = "ok" =>
    /\ AllRecords(shard_proofs, state)
    /\ Len(state) = IF exit_code = 0 THEN index ELSE index - 1

\* If records fit in the buffer one worker at most panics, and only at the exit code
\* of the guest, when the main loop has nothing more to send: acquire refuses no
\* permit, and no turn has passed when a worker waits for it (the panic of
\* AsyncTurnFuture).
NoWorkerDiesUnlessExit ==
  \A v, w \in Workers :
    pc[v] = "dead" /\ pc[w] = "dead" => v = w /\ exit_code # 0 /\ status = "returned"

\* prove_core returns: no wake-up is lost, and no worker waits for memory that
\* workers with later turns hold, if the buffer has room for one record of every
\* worker.
Completes == <>(result # "none")

\* The worker whose turn it is waits for memory that a worker with a later turn
\* has, or has asked for before.
MemoryInversion ==
  \E v, w \in Workers :
    /\ task[v].index = current_turn /\ pc[v] = "waiting"
    /\ task[w].index > current_turn /\ held[w] > 0

\* With a smaller buffer the pipeline can stop for good in two ways only: permits
\* are granted in the order of the requests and not of the turns, or a record
\* does not fit in the buffer at all, the panic of its worker goes unnoticed and a
\* later turn waits for the one that was lost with it. A panic at the exit code of
\* the guest stops nothing: no turn is after it.
StuckOnlyForMemory ==
  result = "none" /\ ~ ENABLED Next =>
    \/ MemoryInversion
    \/ /\ \E v \in Workers : pc[v] = "dead"
       /\ \E w \in Workers : task[w].index > current_turn
=============================================================================
