---------------------------- MODULE ShardExecution ----------------------------
(***************************************************************************)
(* The memory of the executor (crates/core/executor/src/executor.rs) over  *)
(* a whole execution: the first pass runs the program and leaves a         *)
(* checkpoint per shard, the second recovers an executor from each         *)
(* checkpoint and traces the shard.                                        *)
(*                                                                         *)
(* The program is a sequence of instructions, chosen one by one, and a     *)
(* shard may end after any of them. One register, x, stands for all, so    *)
(* that the two arguments of an ecall are one access. A word is a number   *)
(* below WordLimit and its lowest byte a number below ByteLimit. Partial   *)
(* functions are the maps of the code, and an Option is a sequence of at   *)
(* most one element.                                                       *)
(***************************************************************************)
EXTENDS Naturals, Sequences, FiniteSets, Bags, SequencesExt

CONSTANTS Addrs,                 \* addresses of the main memory
          Instructions,          \* the instructions a program may have before HALT
          Images,                \* values of program.memory_image
          Stdin,                 \* the words of the input stream
          WordLimit,             \* 2^64 in the code
          ByteLimit,             \* 2^8 in the code
          PV_DIGEST_NUM_WORDS,   \* 8 in the code
          MaxInstructions        \* bound on the instructions before HALT

\* The register.
x == 1

ASSUME AddrsAssumption == Addrs \subseteq Nat \ {0, x}

VARIABLES
  image,      \* program.memory_image
  rt,         \* the executor of the first pass
  start,      \* the clone of the state that execute_state makes before it executes
  program,    \* the instructions executed so far
  shards,     \* the checkpoints, and what the first pass did in each shard
  done,
  records     \* the records of the second pass

vars == <<image, rt, start, program, shards, done, records>>

Words == 0..(WordLimit - 1)

Opt(f, a) == IF a \in DOMAIN f THEN <<f[a]>> ELSE <<>>

Get(f, a) == IF a \in DOMAIN f THEN f[a] ELSE 0

MemoryEntryInit(value) == [value |-> value, timestamp |-> 0, external_flag |-> FALSE]

\* An executor in the given state. The fields log (the accesses of the shard)
\* and peeks (whether words used without an access were right) are history.
Executor(memory, uninitialized_memory, input_stream, clk) ==
  [memory |-> memory, uninitialized_memory |-> uninitialized_memory,
   input_stream |-> input_stream, clk |-> clk, initial_timestamp |-> clk,
   memory_checkpoint |-> <<>>, uninitialized_memory_checkpoint |-> <<>>,
   memory_diff |-> <<>>, local_mem |-> 0, local_memory_access |-> <<>>,
   syscall_local |-> <<>>, cpu_local_memory_access |-> EmptyBag,
   precompile_local |-> EmptyBag, commit_syscall |-> FALSE,
   committed_value_digest |-> [i \in 0..(PV_DIGEST_NUM_WORDS - 1) |-> 0],
   log |-> <<>>, peeks |-> TRUE]

Initialize(r) ==
  [r EXCEPT !.clk = 1, !.initial_timestamp = 1,
            !.memory = [a \in DOMAIN image |-> MemoryEntryInit(image[a])] @@ @]

\* In these configurations accesses save what they find for the checkpoint.
Saves(mode) == mode \in {"Checkpoint", "Unconstrained"}
-----------------------------------------------------------------------------
(* Memory accesses. *)

\* MemoryLocalEvent: the first and the last access of a run of accesses.
LocalEvent(local, a, prev, entry) ==
  (a :> [addr |-> a, initial |-> IF a \in DOMAIN local THEN local[a].initial ELSE prev,
         final |-> entry]) @@ local

\* "the main shard touches an address that was last touched by another shard"
CountedBefore(r, prev, external) == prev.timestamp < r.initial_timestamp /\ ~external

Counted(r, prev, external) ==
  (prev.timestamp < r.initial_timestamp \/ prev.external_flag) /\ ~external

MemoryDiff(r, a) == r.memory_diff @@ (a :> Opt(r.memory, a))

\* What an access or a peek saves, if it is the first of the shard.
CheckpointConstrained(r, mode, a) ==
  IF mode = "Checkpoint" THEN r.memory_checkpoint @@ (a :> Opt(r.memory, a))
  ELSE r.memory_checkpoint

Checkpoint(r, mode, a) ==
  IF Saves(mode) THEN r.memory_checkpoint @@ (a :> Opt(r.memory, a)) ELSE r.memory_checkpoint

\* mr, mw, rr, rw and the traced forms. The value is an Option: none for a read.
Access(r, mode, a, value, external, timestamp) ==
  LET vacant == a \notin DOMAIN r.memory
      prev   == IF vacant THEN MemoryEntryInit(Get(r.uninitialized_memory, a)) ELSE r.memory[a]
      entry  == [value |-> IF value = <<>> THEN prev.value ELSE value[1],
                 timestamp |-> timestamp, external_flag |-> external]
  IN  [r EXCEPT
         !.memory = (a :> entry) @@ @,
         !.memory_checkpoint = Checkpoint(r, mode, a),
         !.memory_diff = IF mode = "Unconstrained" THEN MemoryDiff(r, a) ELSE @,
         !.uninitialized_memory_checkpoint =
            IF vacant THEN @ @@ (a :> (prev.value # 0)) ELSE @,
         !.local_mem = IF mode # "Unconstrained" /\ Counted(r, prev, external)
                       THEN @ + 1 ELSE @,
         !.local_memory_access =
            IF mode = "Trace" /\ ~external THEN LocalEvent(@, a, prev, entry) ELSE @,
         !.syscall_local =
            IF mode = "Trace" /\ external THEN LocalEvent(@, a, prev, entry) ELSE @,
         !.log = Append(@, [addr |-> a, prev |-> prev, entry |-> entry,
                            constrained |-> mode # "Unconstrained"])]

\* The accesses of the CPU, at their MemoryAccessPosition.
Memory == 1
B == 3
A == 4

ReadCpu(r, mode, a, position) == Access(r, mode, a, <<>>, FALSE, r.clk + position)

WriteCpu(r, mode, a, value, position) == Access(r, mode, a, <<value>>, FALSE, r.clk + position)

\* What double_word and register return: the current value, without an access.
DoubleWord(r, a) == IF a \in DOMAIN r.memory THEN r.memory[a].value ELSE 0

\* And what they change: the checkpoint.
Peek(r, mode, a) == [r EXCEPT !.memory_checkpoint = Checkpoint(r, mode, a)]

\* History: the word was put to use, and a load would have returned it.
Uses(r, a) ==
  [r EXCEPT !.peeks = @ /\ (a \in DOMAIN r.memory \/ Get(r.uninitialized_memory, a) = 0)]
-----------------------------------------------------------------------------
(* Instructions. *)

Tick(r, cycles) == [r EXCEPT !.clk = @ + cycles]

Addi(r, mode) ==
  LET b == ReadCpu(r, mode, x, B)
  IN  Tick(WriteCpu(b, mode, x, (b.memory[x].value + 1) % WordLimit, A), 8)

Load(r, mode, a) ==
  LET m == ReadCpu(ReadCpu(r, mode, x, B), mode, a, Memory)
  IN  Tick(WriteCpu(m, mode, x, m.memory[a].value, A), 8)

\* SB replaces a byte of the word that double_word returns, SD all of it.
Store(r, mode, a, byte) ==
  LET m    == IF byte THEN Uses(ReadCpu(r, mode, x, A), a) ELSE ReadCpu(r, mode, x, A)
      word == m.memory[x].value
      old  == DoubleWord(m, a)
      new  == IF byte THEN (old \div ByteLimit) * ByteLimit + (word % ByteLimit) ELSE word
  IN  Tick(WriteCpu(Peek(m, mode, a), mode, a, new, Memory), 8)

\* execute_ecall up to the handler, and after it. If the handler returns no
\* value, t0 keeps the syscall id.
EcallArgs(r, mode) == ReadCpu(Peek(r, mode, x), mode, x, B)

EcallReturn(r, mode, value) == Tick(WriteCpu(r, mode, x, value, A), 256 + 8)

EcallNone(r, before, mode) == EcallReturn(r, mode, DoubleWord(before, x))

\* WRITE to FD_HINT.
WriteHint(r, mode, a) ==
  [Peek(Uses(r, a), mode, a) EXCEPT !.input_stream = <<DoubleWord(r, a)>> \o @]

HintRead(r, a) ==
  [r EXCEPT !.input_stream = Tail(@),
            !.uninitialized_memory_checkpoint = @ @@ (a :> FALSE),
            !.uninitialized_memory = (a :> Head(r.input_stream)) @@ @]

\* SyscallContext::postprocess: the CPU's event of an address the precompile
\* touched is closed, and the precompile's events go with its own.
PostprocessOpen(r) ==
  [r EXCEPT !.precompile_local =
               @ (+) SetToBag({r.syscall_local[a] : a \in DOMAIN r.syscall_local}),
            !.syscall_local = <<>>]

Postprocess(r) ==
  LET closed == DOMAIN r.syscall_local \cap DOMAIN r.local_memory_access
  IN  [r EXCEPT
         !.cpu_local_memory_access = @ (+) SetToBag({r.local_memory_access[a] : a \in closed}),
         !.local_memory_access = [a \in DOMAIN @ \ closed |-> @[a]],
         !.precompile_local =
            @ (+) SetToBag({r.syscall_local[a] : a \in DOMAIN r.syscall_local}),
         !.syscall_local = <<>>]

\* fp_op: the word at a is combined with the one at b. A retained precompile
\* is not external.
PrecompileSameClk(r, mode, a, b, external) ==
  LET y == Access(Peek(Uses(r, a), mode, a), mode, b, <<>>, external, r.clk)
      z == (DoubleWord(r, a) + y.memory[b].value) % WordLimit
  IN  Postprocess(Access(y, mode, a, <<z>>, external, r.clk))

Precompile(r, mode, a, b, external) ==
  LET y == Access(Peek(Uses(r, a), mode, a), mode, b, <<>>, external, r.clk)
      z == (DoubleWord(r, a) + y.memory[b].value) % WordLimit
  IN  Postprocess(Access(y, mode, a, <<z>>, external, r.clk + 1))

Commit(r, i) ==
  [r EXCEPT !.committed_value_digest[i] = r.memory[x].value, !.commit_syscall = TRUE]

\* The instructions that an unconstrained block may have.
Plain(r, mode, i) ==
  CASE i.op = "ADDI"  -> Addi(r, mode)
    [] i.op = "LOAD"  -> Load(r, mode, i.a)
    [] i.op = "SD"    -> Store(r, mode, i.a, FALSE)
    [] i.op = "SB"    -> Store(r, mode, i.a, TRUE)
    [] i.op = "WRITE" -> EcallNone(WriteHint(EcallArgs(r, mode), mode, i.a), r, mode)

ResetOccupied(memory, saved) ==
  [a \in {b \in DOMAIN saved : saved[b] # <<>>} |-> saved[a][1]] @@ memory

\* Memory with the entries that saved has put back.
Reset(memory, saved) ==
  LET gone == {a \in DOMAIN saved : saved[a] = <<>>}
      back == DOMAIN saved \ gone
  IN  [a \in back |-> saved[a][1]] @@ [a \in DOMAIN memory \ gone |-> memory[a]]

\* run_unconstrained, until EXIT_UNCONSTRAINED.
RunUnconstrained(r, body) ==
  LET Run(s, i) == Plain(s, "Unconstrained", i)
  IN  EcallReturn(EcallArgs(FoldLeft(Run, r, body), "Unconstrained"), "Unconstrained", 0)

\* The state of the block is dropped, and the executor goes on at clk.
Restore(run, clk) ==
  [run EXCEPT !.clk = clk, !.memory = Reset(@, run.memory_diff), !.memory_diff = <<>>]

EnterUnconstrained(r, body) ==
  Restore(RunUnconstrained(
            WriteCpu([r EXCEPT !.memory_diff = <<>>], "Unconstrained", x, 1, A), body), r.clk)

ExecuteInstruction(r, mode, i) ==
  CASE i.op = "HINT_READ"  -> EcallNone(HintRead(EcallArgs(r, mode), i.a), r, mode)
    [] i.op = "PRECOMPILE" ->
         EcallNone(Precompile(EcallArgs(r, mode), mode, i.a, i.b, i.external), r, mode)
    [] i.op = "COMMIT"     -> EcallNone(Commit(EcallArgs(r, mode), i.word), r, mode)
    [] i.op = "ENTER_UNCONSTRAINED" ->
         EcallReturn(EnterUnconstrained(EcallArgs(r, mode), i.body), mode, 0)
    [] i.op = "HALT"       -> EcallNone(EcallArgs(r, mode), r, mode)
    [] OTHER               -> Plain(r, mode, i)

\* If the shard ends, all registers are read before the next begins.
EndShard(r, mode, cut) ==
  IF cut THEN [Access(r, mode, x, <<>>, FALSE, r.clk - 1) EXCEPT !.initial_timestamp = r.clk]
  ELSE r

ExecuteCycle(r, mode, i, cut) == EndShard(ExecuteInstruction(r, mode, i), mode, cut)

\* bump_record, where it takes the local events of a traced shard.
BumpRecord(r) ==
  [r EXCEPT !.local_mem = 0,
            !.cpu_local_memory_access =
               @ (+) SetToBag({r.local_memory_access[a] : a \in DOMAIN r.local_memory_access}),
            !.local_memory_access = <<>>]
-----------------------------------------------------------------------------
(* The first pass: generate_checkpoint until the program is done. *)

CloneState(r) == [input_stream |-> r.input_stream, clk |-> r.clk]

\* The memory and uninitialized memory of a checkpoint: what the shard found
\* where it looked, or everything, as it was before, for the last shard.
CheckpointMemory(r) ==
  [a \in {b \in DOMAIN r.memory_checkpoint : r.memory_checkpoint[b] # <<>>} |->
     r.memory_checkpoint[a][1]]

CheckpointUninitialized(r) ==
  LET is_old == r.uninitialized_memory_checkpoint
  IN  [a \in {b \in DOMAIN is_old : is_old[b]} |-> r.uninitialized_memory[a]]

LastMemory(r) == Reset(r.memory, r.memory_checkpoint)

LastUninitialized(r) ==
  LET is_old == r.uninitialized_memory_checkpoint
  IN  [a \in DOMAIN r.uninitialized_memory \ {b \in DOMAIN is_old : ~is_old[b]} |->
         r.uninitialized_memory[a]]

CheckpointState(clone, r, last) ==
  [input_stream |-> clone.input_stream, clk |-> clone.clk,
   memory |-> IF last THEN LastMemory(r) ELSE CheckpointMemory(r),
   uninitialized_memory |-> IF last THEN LastUninitialized(r) ELSE CheckpointUninitialized(r)]

NextShard(r) ==
  [r EXCEPT !.memory_checkpoint = <<>>, !.uninitialized_memory_checkpoint = <<>>,
            !.local_mem = 0, !.log = <<>>]

First == IF shards = <<>> THEN 1 ELSE shards[Len(shards)].last + 1

\* The guest's read_vec_raw: there is input, and the buffer is fresh.
ReadVecRaw(i) ==
  i.op = "HINT_READ" =>
    /\ rt.input_stream # <<>>
    /\ i.a \notin DOMAIN rt.memory \cup DOMAIN rt.uninitialized_memory

\* The guest's syscall_halt: the words of the digest are committed in order.
SyscallHalt(i) ==
  i.op = "COMMIT" => i.word = Cardinality({n \in DOMAIN program : program[n].op = "COMMIT"})

\* One cycle. cut says that the shard has reached its maximal size.
Cycle(i, cut) ==
  /\ ~done
  /\ ReadVecRaw(i) /\ SyscallHalt(i)
  /\ program' = Append(program, i)
  /\ done' = (i.op = "HALT")
  /\ \E r \in {ExecuteCycle(rt, "Checkpoint", i, cut)} :
       IF cut \/ done'
       THEN /\ shards' = Append(shards,
                 [first |-> First, last |-> Len(program'), done |-> done', cut |-> cut,
                  state |-> CheckpointState(start, r, done'),
                  log |-> r.log, local_mem |-> r.local_mem])
            /\ rt' = NextShard(r)
            /\ start' = CloneState(r)
       ELSE rt' = r /\ UNCHANGED <<shards, start>>
  /\ UNCHANGED <<image, records>>
-----------------------------------------------------------------------------
(* The second pass: trace_checkpoint for each shard. *)

Recover(shard) ==
  LET r == Executor(shard.state.memory, shard.state.uninitialized_memory,
                    shard.state.input_stream, shard.state.clk)
  IN  IF shard.first = 1 THEN Initialize(r) ELSE r

Execute(r, mode, from, to, cut) ==
  LET Run(s, n) == ExecuteCycle(s, mode, program[n], cut /\ n = to)
  IN  FoldLeft(Run, r, [j \in 1..(to + 1 - from) |-> from + j - 1])

\* The executions after a traced shard that has committed, to the end.
RunAheadBlank(r, from) ==
  Execute([NextShard(r) EXCEPT !.committed_value_digest = [i \in DOMAIN @ |-> 0]],
          "Checkpoint", from, Len(program), FALSE)

RunAhead(r, from) == Execute(NextShard(r), "Checkpoint", from, Len(program), FALSE)

\* Events <<addr, timestamp, value>> of the global memory tables.
GlobalInitialize(r) ==
  {<<a, 0, Get(r.uninitialized_memory, a)>> : a \in DOMAIN r.memory \ DOMAIN image}

GlobalFinalize(r) == {<<a, r.memory[a].timestamp, r.memory[a].value>> : a \in DOMAIN r.memory}

\* The record of a shard. If it has committed, its digest is the one at the end
\* of the program.
Record(shard, traced) ==
  LET bumped == BumpRecord(traced)
      ahead  == ~shard.done /\ traced.commit_syscall
  IN  [log |-> traced.log, local_mem |-> traced.local_mem,
       cpu_local_memory_access |-> bumped.cpu_local_memory_access,
       precompile_local |-> bumped.precompile_local,
       initialize |-> IF shard.done THEN GlobalInitialize(traced) ELSE {},
       finalize |-> IF shard.done THEN GlobalFinalize(traced) ELSE {},
       commit_syscall |-> traced.commit_syscall,
       committed_value_digest |->
         IF ahead THEN RunAhead(bumped, shard.last + 1).committed_value_digest
         ELSE traced.committed_value_digest]

TraceCheckpoint ==
  /\ done
  /\ Len(records) < Len(shards)
  /\ \E shard \in {shards[Len(records) + 1]} :
       \E traced \in {Execute(Recover(shard), "Trace", shard.first, shard.last, shard.cut)} :
         records' = Append(records, Record(shard, traced))
  /\ UNCHANGED <<image, rt, start, program, shards, done>>
-----------------------------------------------------------------------------
Init ==
  /\ image \in Images
  /\ LET new == Executor(<<>>, <<>>, Stdin, 0)
     IN  rt = Initialize(new) /\ start = CloneState(new)
  /\ program = <<>> /\ shards = <<>> /\ records = <<>>
  /\ done = FALSE

Next ==
  \/ \E i \in Instructions, cut \in BOOLEAN : Len(program) < MaxInstructions /\ Cycle(i, cut)
  \/ \E cut \in BOOLEAN : Cycle([op |-> "HALT"], cut)
  \/ TraceCheckpoint

Spec == Init /\ [][Next]_vars
-----------------------------------------------------------------------------
(* Properties. *)

MemoryEntry == [value : Words, timestamp : Nat, external_flag : BOOLEAN]

IsMemory(m) == DOMAIN m \subseteq Addrs \cup {x} /\ \A a \in DOMAIN m : m[a] \in MemoryEntry

\* The executor's maps hold words of the word size, and a checkpoint's memory
\* lies within the addresses of the program.
TypeOK ==
  /\ image \in Images
  /\ IsMemory(rt.memory)
  /\ rt.clk \in Nat /\ rt.local_mem \in Nat
  /\ \A a \in DOMAIN rt.uninitialized_memory : rt.uninitialized_memory[a] \in Words
  /\ \A n \in DOMAIN rt.input_stream : rt.input_stream[n] \in Words
  /\ \A k \in DOMAIN shards : IsMemory(shards[k].state.memory)

\* execute_state and recover: from its checkpoint a shard is traced with
\* exactly the accesses, values and timestamps of the first pass, whatever the
\* other shards, unconstrained blocks and hints did, and without a hint read
\* into a word that the checkpoint has already.
ReplayFaithful ==
  /\ TypeOK
  /\ \A k \in DOMAIN records :
       /\ records[k].log = shards[k].log
       /\ \A n \in shards[k].first..shards[k].last :
            program[n].op = "HINT_READ" =>
              program[n].a \notin DOMAIN shards[k].state.uninitialized_memory

LocalEvents ==
  LET Join(bag, record) == bag (+) record.cpu_local_memory_access (+) record.precompile_local
  IN  FoldLeft(Join, EmptyBag, records)

\* bump_record, SyscallContext::postprocess and Executor::postprocess: over all
\* records, what the memory tables initialize and the local events leave is
\* what the local events find and the memory tables finalize.
MemoryBalanced ==
  (done /\ Len(records) = Len(shards)) =>
    LET last       == records[Len(records)]
        program_mem == {<<a, 0, image[a]>> : a \in DOMAIN image}
        Found(e)   == <<e.addr, e.initial.timestamp, e.initial.value>>
        Left(e)    == <<e.addr, e.final.timestamp, e.final.value>>
    IN  SetToBag(program_mem) (+) SetToBag(last.initialize) (+) BagOfAll(Left, LocalEvents)
          = SetToBag(last.finalize) (+) BagOfAll(Found, LocalEvents)

\* LocalCounts::local_mem, by which the first pass decides where to end a shard
\* without building events, is the number of local events of the traced record.
LocalCountsExact ==
  \A k \in DOMAIN records :
    /\ shards[k].local_mem = records[k].local_mem
    /\ shards[k].local_mem = BagCardinality(records[k].cpu_local_memory_access)

\* Each constrained access is later than the one before it to the same address,
\* also across shards, precompiles and unconstrained blocks: the order that the
\* memory argument requires.
TimestampsIncrease ==
  \A log \in {rt.log} \cup {shards[k].log : k \in DOMAIN shards} : \A n \in DOMAIN log :
    log[n].constrained => log[n].prev.timestamp < log[n].entry.timestamp

\* enter_unconstrained_syscall: no word of memory is different after an
\* unconstrained block, nor is its timestamp.
UnconstrainedRestores ==
  [][\A n \in DOMAIN program' \ DOMAIN program :
       program'[n].op = "ENTER_UNCONSTRAINED" =>
         \A a \in Addrs : Opt(rt'.memory, a) = Opt(rt.memory, a)]_vars

\* The record whose digest the chain of shards shows from then on.
ShowsDigest(k) ==
  records[k].commit_syscall /\ \A j \in 1..(k - 1) : ~records[j].commit_syscall

\* trace_checkpoint: "Handle the case where `COMMIT` or `COMMIT_DEFERRED_PROOFS`
\* happens across last two shards". The first shard that commits shows the digest
\* of the whole program, however many shards commit, if the rest of the program
\* accesses only what the shard has accessed: any other word is zero to it.
RunAheadRightIfTouched ==
  \A k \in DOMAIN records :
    LET touched == {shards[k].log[n].addr : n \in DOMAIN shards[k].log}
        later   == UNION {{shards[j].log[n].addr : n \in DOMAIN shards[j].log} :
                            j \in (k + 1)..Len(shards)}
    IN  ShowsDigest(k) /\ later \subseteq touched =>
          records[k].committed_value_digest = rt.committed_value_digest

\* double_word: "Get the current value of a double word". What WRITE, a partial
\* store or a precompile gets from it is what a load of the word would return.
PeeksCurrent == rt.peeks
=============================================================================
