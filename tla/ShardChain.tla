------------------------------ MODULE ShardChain ------------------------------
(***************************************************************************)
(* The chain of shards of one execution: what a record worker of           *)
(* `MachineExecutor::execute` (crates/core/machine/src/executor.rs) does   *)
(* when it has its turn. It finishes the public values of the traced       *)
(* record from the state the shards before it left, defers and splits      *)
(* events, gives the deferred shards their public values, and sends them   *)
(* all on. Module RecordPipeline has the concurrent workers; here the      *)
(* turns are taken one after the other.                                    *)
(*                                                                         *)
(* A program is a sequence of instructions of which only what reaches the  *)
(* public values matters: precompile calls, and the COMMIT,                *)
(* COMMIT_DEFERRED_PROOFS and HALT calls `syscall_halt` of the zkvm        *)
(* entrypoint ends every program with. A shard may end after any of them.  *)
(* The words of a digest are in memory from the instruction that stores    *)
(* them until their calls, each in a cell of its own.                      *)
(***************************************************************************)
EXTENDS RecordSplit, ShardConstraints, CoreVerify

CONSTANTS MaxBody,           \* bound on the instructions before syscall_halt
          CommittedDigests,  \* values of the public values digest, as words
          DeferredDigests,   \* values of the deferred proofs digest, as words
          ExitCodes,
          Nonces,            \* values of context.proof_nonce
          Memories,          \* what postprocess finds: addresses to initialize and finalize
          Pages              \* and the pages, or none if the program is trusted

VARIABLES
  program,    \* the execution: its instructions and what it ends with
  at,         \* the next instruction to put in a shard
  state,      \* the shared PublicValues
  deferred,   \* the shared deferred ExecutionRecord
  shards      \* the records sent to the prover

vars == <<program, at, state, deferred, shards>>

-----------------------------------------------------------------------------
(* Programs. *)

Alu == [op |-> "ALU", arg |-> 0]

Precompile(c) == [op |-> "PRECOMPILE", arg |-> c]

Commit(i) == [op |-> "COMMIT", arg |-> i]

CommitDeferred(i) == [op |-> "COMMIT_DEFERRED_PROOFS", arg |-> i]

Halt == [op |-> "HALT", arg |-> 0]

Bodies == UNION {[1..n -> {Alu} \cup {Precompile(c) : c \in Codes}] : n \in 0..MaxBody}

\* syscall_halt of crates/zkvm/entrypoint.
SyscallHalt(committed, digest) ==
  [i \in 1..Len(committed) |-> Commit(i)] \o [i \in 1..Len(digest) |-> CommitDeferred(i)]
    \o <<Halt>>

Program(body, committed, digest, stored, exit_code, nonce, mem, pages) ==
  [code |-> body \o SyscallHalt(committed, digest), committed |-> committed, digest |-> digest,
   stored |-> stored, exit_code |-> exit_code, nonce |-> nonce,
   memory |-> mem, pages |-> pages.idxs, untrusted |-> pages.untrusted]

Calls == {"COMMIT", "COMMIT_DEFERRED_PROOFS"}

\* Any program. Its `stored` is the instruction that is the last to store the words a
\* call commits to: one of the body, or the first of syscall_halt.
Programmed ==
  \E body \in Bodies, committed \in CommittedDigests, digest \in DeferredDigests,
     exit_code \in ExitCodes, nonce \in Nonces, mem \in Memories, pages \in Pages :
    \E stored \in [Calls -> 1..(Len(body) + 1)] :
      program = Program(body, committed, digest, stored, exit_code, nonce, mem, pages)

Clk(i) == 1 + 8 * (i - 1)

Pc(i) == IF i > Len(program.code) THEN HALT_PC ELSE 4 * i

Zeros(words) == [i \in DOMAIN words |-> 0]

ZeroDigests ==
  [committed_value_digest |-> Zeros(program.committed),
   deferred_proofs_digest |-> Zeros(program.digest)]

-----------------------------------------------------------------------------
(* trace_checkpoint. *)

Ran(call, i, first, last) == \E k \in first..last : program.code[k] = [op |-> call, arg |-> i]

Called(call, first, last) == \E k \in first..last : program.code[k].op = call

\* The checkpoint of a shard has the registers, and of the memory what the shard
\* accesses: a word that was stored before is zero to a run ahead of the shard.
Touched(call, first) == program.stored[call] >= first

WordsReversed(call, words, first, last, upto) ==
  [i \in DOMAIN words |->
     IF Ran(call, i, first, last) \/ (Ran(call, i, last + 1, upto) /\ Touched(call, first))
     THEN words[Len(words) + 1 - i] ELSE 0]

\* The words that the shard, and a run ahead of it up to an instruction `upto`, write
\* in blank public values.
Words(call, words, first, last, upto) ==
  [i \in DOMAIN words |->
     IF Ran(call, i, first, last) \/ (Ran(call, i, last + 1, upto) /\ Touched(call, first))
     THEN words[i] ELSE 0]

\* If the shard calls COMMIT or COMMIT_DEFERRED_PROOFS, the rest of the
\* execution is run as well, for the shard to have the final digests.
RunsAhead(first, last) ==
  /\ last < Len(program.code)
  /\ Called("COMMIT", first, last) \/ Called("COMMIT_DEFERRED_PROOFS", first, last)

EventsOf(first, last) ==
  LET done == last = Len(program.code)
      Of(c) == SelectSeq([k \in 1..(last - first + 1) |-> first + k - 1],
                         LAMBDA k : program.code[k] = Precompile(c))
  IN  [precompile_events |-> [c \in Codes |-> Of(c)],
       global_memory_initialize_events |-> IF done THEN program.memory.init ELSE {},
       global_memory_finalize_events |-> IF done THEN program.memory.finalize ELSE {},
       global_page_prot_initialize_events |-> IF done THEN program.pages.init ELSE {},
       global_page_prot_finalize_events |-> IF done THEN program.pages.finalize ELSE {}]

TraceCheckpoint(first, last) ==
  LET ahead == RunsAhead(first, last)
      upto  == IF ahead THEN Len(program.code) ELSE last
      Flag(call) == IF ahead \/ Called(call, first, last) THEN 1 ELSE 0
  IN  [committed_value_digest |-> Words("COMMIT", program.committed, first, last, upto),
       deferred_proofs_digest |->
         Words("COMMIT_DEFERRED_PROOFS", program.digest, first, last, upto),
       commit_syscall |-> Flag("COMMIT"),
       commit_deferred_syscall |-> Flag("COMMIT_DEFERRED_PROOFS"),
       pc_start |-> Pc(first), next_pc |-> Pc(last + 1),
       initial_timestamp |-> Clk(first), last_timestamp |-> Clk(last + 1),
       exit_code |-> IF last = Len(program.code) THEN program.exit_code ELSE 0]

-----------------------------------------------------------------------------
(* The update of the shared state, and the public values it gives. *)

\* A value the first record that has one sets once and for all.
Sticky(old, new, zero) == IF old = zero THEN new ELSE old

\* "Update the public values & prover state for the shards which contain cpu
\* events": the state of the shard, which is also its public values.
ExecutionShard(s, traced) ==
  LET its == traced.initial_timestamp
      lts == traced.last_timestamp
  IN  [s EXCEPT
         !.is_execution_shard = 1,
         !.is_untrusted_programs_enabled = program.untrusted,
         !.proof_nonce = program.nonce,
         !.pc_start = traced.pc_start,
         !.next_pc = traced.next_pc,
         !.initial_timestamp = its,
         !.last_timestamp = lts,
         !.is_first_shard = IF its = 1 THEN 1 ELSE 0,
         !.initial_timestamp_inv = IF its = 1 THEN 0 ELSE NotOne(its),
         !.last_timestamp_inv = NotOne(lts),
         !.is_timestamp_high_eq = IF High(its) = High(lts) THEN 1 ELSE 0,
         !.inv_timestamp_high = IF High(its) = High(lts) THEN @ ELSE High(lts) - High(its),
         !.is_timestamp_low_eq = IF Low(its) = Low(lts) THEN 1 ELSE 0,
         !.inv_timestamp_low = IF Low(its) = Low(lts) THEN @ ELSE Low(lts) - Low(its),
         !.committed_value_digest =
            Sticky(@, traced.committed_value_digest, ZeroDigests.committed_value_digest),
         !.deferred_proofs_digest =
            Sticky(@, traced.deferred_proofs_digest, ZeroDigests.deferred_proofs_digest),
         !.commit_syscall = Sticky(@, traced.commit_syscall, 0),
         !.commit_deferred_syscall = Sticky(@, traced.commit_deferred_syscall, 0),
         !.exit_code = Sticky(@, traced.exit_code, 0)]

AdvanceNoFlag(s) ==
  [s EXCEPT !.prev_exit_code = s.exit_code,
            !.prev_commit_deferred_syscall = s.commit_deferred_syscall,
            !.prev_committed_value_digest = s.committed_value_digest,
            !.prev_deferred_proofs_digest = s.deferred_proofs_digest,
            !.initial_timestamp = s.last_timestamp]

\* The state handed to the next shard.
Advance(s) ==
  [s EXCEPT !.prev_exit_code = s.exit_code,
            !.prev_commit_syscall = s.commit_syscall,
            !.prev_commit_deferred_syscall = s.commit_deferred_syscall,
            !.prev_committed_value_digest = s.committed_value_digest,
            !.prev_deferred_proofs_digest = s.deferred_proofs_digest,
            !.initial_timestamp = s.last_timestamp]

DeferredShardStaleFlags(s, addr) ==
  [s EXCEPT !.previous_init_addr = addr.previous_init_addr,
            !.last_init_addr = addr.last_init_addr,
            !.previous_finalize_addr = addr.previous_finalize_addr,
            !.last_finalize_addr = addr.last_finalize_addr,
            !.previous_init_page_idx = addr.previous_init_page_idx,
            !.last_init_page_idx = addr.last_init_page_idx,
            !.previous_finalize_page_idx = addr.previous_finalize_page_idx,
            !.last_finalize_page_idx = addr.last_finalize_page_idx,
            !.pc_start = s.next_pc,
            !.prev_exit_code = s.exit_code,
            !.prev_commit_syscall = s.commit_syscall,
            !.prev_commit_deferred_syscall = s.commit_deferred_syscall,
            !.prev_committed_value_digest = s.committed_value_digest,
            !.prev_deferred_proofs_digest = s.deferred_proofs_digest,
            !.last_timestamp = s.initial_timestamp,
            !.is_first_shard = 0,
            !.is_execution_shard = 0,
            !.initial_timestamp_inv = NotOne(s.initial_timestamp),
            !.last_timestamp_inv = NotOne(s.initial_timestamp)]

DeferredShardBlankNonce(s, addr) ==
  [s EXCEPT !.previous_init_addr = addr.previous_init_addr,
            !.last_init_addr = addr.last_init_addr,
            !.previous_finalize_addr = addr.previous_finalize_addr,
            !.last_finalize_addr = addr.last_finalize_addr,
            !.previous_init_page_idx = addr.previous_init_page_idx,
            !.last_init_page_idx = addr.last_init_page_idx,
            !.previous_finalize_page_idx = addr.previous_finalize_page_idx,
            !.last_finalize_page_idx = addr.last_finalize_page_idx,
            !.pc_start = s.next_pc,
            !.prev_exit_code = s.exit_code,
            !.prev_commit_syscall = s.commit_syscall,
            !.prev_commit_deferred_syscall = s.commit_deferred_syscall,
            !.prev_committed_value_digest = s.committed_value_digest,
            !.prev_deferred_proofs_digest = s.deferred_proofs_digest,
            !.last_timestamp = s.initial_timestamp,
            !.is_timestamp_high_eq = 1,
            !.is_timestamp_low_eq = 1,
            !.is_first_shard = 0,
            !.proof_nonce = 0,
            !.is_execution_shard = 0,
            !.initial_timestamp_inv = NotOne(s.initial_timestamp),
            !.last_timestamp_inv = NotOne(s.initial_timestamp)]

\* "Update the public values & prover state for the shards which do not contain
\* cpu events". A deferred record is blank, so its own initial_timestamp is zero.
DeferredShard(s, addr) ==
  [s EXCEPT !.previous_init_addr = addr.previous_init_addr,
            !.last_init_addr = addr.last_init_addr,
            !.previous_finalize_addr = addr.previous_finalize_addr,
            !.last_finalize_addr = addr.last_finalize_addr,
            !.previous_init_page_idx = addr.previous_init_page_idx,
            !.last_init_page_idx = addr.last_init_page_idx,
            !.previous_finalize_page_idx = addr.previous_finalize_page_idx,
            !.last_finalize_page_idx = addr.last_finalize_page_idx,
            !.pc_start = s.next_pc,
            !.prev_exit_code = s.exit_code,
            !.prev_commit_syscall = s.commit_syscall,
            !.prev_commit_deferred_syscall = s.commit_deferred_syscall,
            !.prev_committed_value_digest = s.committed_value_digest,
            !.prev_deferred_proofs_digest = s.deferred_proofs_digest,
            !.last_timestamp = s.initial_timestamp,
            !.is_timestamp_high_eq = 1,
            !.is_timestamp_low_eq = 1,
            !.is_first_shard = 0,
            !.is_execution_shard = 0,
            !.initial_timestamp_inv = NotOne(s.initial_timestamp),
            !.last_timestamp_inv = NotOne(s.initial_timestamp)]

\* The addresses split wrote in the last record's public values; with page
\* events it also writes the proof nonce of the deferred record, which is the
\* one of ExecutionRecord::new.
PackedValues(pv, last, has_pages) ==
  [pv EXCEPT !.previous_init_addr = last.addr.previous_init_addr,
             !.last_init_addr = last.addr.last_init_addr,
             !.previous_finalize_addr = last.addr.previous_finalize_addr,
             !.last_finalize_addr = last.addr.last_finalize_addr,
             !.previous_init_page_idx = last.addr.previous_init_page_idx,
             !.last_init_page_idx = last.addr.last_init_page_idx,
             !.previous_finalize_page_idx = last.addr.previous_finalize_page_idx,
             !.last_finalize_page_idx = last.addr.last_finalize_page_idx,
             !.is_untrusted_programs_enabled = IF has_pages THEN 1 ELSE @,
             !.proof_nonce = IF has_pages THEN 0 ELSE @]

HasPages(events) ==
  events.global_page_prot_initialize_events # {} \/ events.global_page_prot_finalize_events # {}

-----------------------------------------------------------------------------
\* The shared state before the first turn.
Blanked ==
  /\ at = 1
  /\ deferred = NoEvents
  /\ shards = <<>>
  /\ state = AddrFields @@
             [prev_committed_value_digest |-> ZeroDigests.committed_value_digest,
              prev_deferred_proofs_digest |-> ZeroDigests.deferred_proofs_digest] @@
             ZeroDigests @@
             [pc_start |-> 0, next_pc |-> 0, prev_exit_code |-> 0, exit_code |-> 0,
              is_execution_shard |-> 0, initial_timestamp |-> 0, last_timestamp |-> 0,
              is_timestamp_high_eq |-> 0, inv_timestamp_high |-> 0,
              is_timestamp_low_eq |-> 0, inv_timestamp_low |-> 0,
              prev_commit_syscall |-> 0, commit_syscall |-> 0,
              prev_commit_deferred_syscall |-> 0, commit_deferred_syscall |-> 0,
              initial_timestamp_inv |-> 0, last_timestamp_inv |-> 0, is_first_shard |-> 0,
              is_untrusted_programs_enabled |-> 0, proof_nonce |-> program.nonce]

Init == Programmed /\ Blanked

\* The turn of the worker whose checkpoint runs up to instruction `last`. The
\* trace area of its record may be below pack_trace_threshold, and a HashMap
\* yields the codes of the deferred precompile events in some order. The worker of
\* the last checkpoint has none if the guest's exit code is not zero: its
\* trace_checkpoint has panicked.
Turn(last, small, order) ==
  LET done == last = Len(program.code) IN
  /\ done => program.exit_code = 0
  /\ \E events \in {EventsOf(at, last)},
        pv \in {ExecutionShard(state, TraceCheckpoint(at, last))} :
     \E next \in {Advance(pv)}, all \in {Append2(deferred, Deferred(events))} :
     \E split \in {Split(done, CanPack(done, small, all), order, all,
                         [Blank EXCEPT !.events = Kept(events)])} :
       LET own    == [pv |-> IF split.pack THEN PackedValues(pv, split.last, HasPages(all)) ELSE pv,
                      events |-> split.last.events]
           others == [j \in DOMAIN split.shards |->
                        [pv |-> DeferredShard(next, split.shards[j].addr),
                         events |-> split.shards[j].events]]
       IN  /\ shards' = shards \o <<own>> \o others
           /\ state' = IF others = <<>> THEN next ELSE others[Len(others)].pv
           /\ deferred' = Remainder(done, all)
           /\ at' = last + 1
           /\ UNCHANGED program

Orders ==
  {o \in [1..Cardinality(Codes \ Retained) -> Codes \ Retained] : IsInjective(o)}

Next ==
  \E last \in at..Len(program.code), small \in BOOLEAN, order \in Orders :
    Turn(last, small, order)

Spec == Init /\ [][Next]_vars

-----------------------------------------------------------------------------
(* Properties. *)

Done == at > Len(program.code)

PublicValues == [i \in DOMAIN shards |-> shards[i].pv]

vk == [pc_start |-> 4, enable_untrusted_programs |-> program.untrusted]

TypeOK ==
  /\ \A call \in Calls : program.stored[call] \in DOMAIN program.code
  /\ at \in 1..(Len(program.code) + 1)
  /\ DOMAIN state = DOMAIN AddrFields \cup DOMAIN ZeroDigests \cup
       {"prev_committed_value_digest", "prev_deferred_proofs_digest", "pc_start", "next_pc",
        "prev_exit_code", "exit_code", "is_execution_shard", "initial_timestamp",
        "last_timestamp", "is_timestamp_high_eq", "inv_timestamp_high", "is_timestamp_low_eq",
        "inv_timestamp_low", "prev_commit_syscall", "commit_syscall",
        "prev_commit_deferred_syscall", "commit_deferred_syscall", "initial_timestamp_inv",
        "last_timestamp_inv", "is_first_shard", "is_untrusted_programs_enabled", "proof_nonce"}
  /\ \A c \in Codes : Len(deferred.precompile_events[c]) < syscall_threshold
  /\ \A i \in DOMAIN shards : DOMAIN shards[i].pv = DOMAIN state

\* The instructions an execution shard ran: those with its timestamps.
RanIn(pv) ==
  IF pv.is_execution_shard = 0 THEN {}
  ELSE {k \in DOMAIN program.code : pv.initial_timestamp <= Clk(k) /\ Clk(k) < pv.last_timestamp}

\* A call commits to a word other than zero that an earlier shard has run ahead to
\* without the memory it is in.
Missed(k) ==
  LET call == program.code[k]
      word == IF call.op = "COMMIT" THEN program.committed[call.arg] ELSE program.digest[call.arg]
  IN  /\ word # 0
      /\ \E i \in DOMAIN shards :
           LET ran == RanIn(shards[i].pv) IN
           /\ ran # {} /\ k > Max(ran)
           /\ RunsAhead(Min(ran), Max(ran)) /\ ~ Touched(call.op, Min(ran))

AnyMissed(call) == \E k \in DOMAIN program.code : program.code[k].op = call /\ Missed(k)

\* The constraints on the public values of shard i.
Satisfied(i) ==
  LET pv == shards[i].pv IN
  /\ EvalState(pv)
  /\ EvalFirstShard(pv, ZeroDigests)
  /\ EvalExitCode(pv)
  /\ EvalCommittedValueDigest(pv, ZeroDigests)
  /\ EvalDeferredProofsDigest(pv, ZeroDigests)

\* The public values the worker gives a shard, an execution shard or a deferred
\* one, satisfy the constraints eval_public_values puts on the shard's proof, unless a
\* shard has run ahead to a COMMIT or COMMIT_DEFERRED_PROOFS without the word it
\* commits to: its digest may be zero then and change when the call is reached.
PublicValuesSatisfiedUnlessMissed ==
  \A i \in DOMAIN shards :
    LET pv == shards[i].pv IN
    /\ EvalState(pv)
    /\ EvalFirstShard(pv, ZeroDigests)
    /\ EvalExitCode(pv)
    /\ EvalCommittedValueDigest(pv, ZeroDigests) \/ AnyMissed("COMMIT")
    /\ EvalDeferredProofsDigest(pv, ZeroDigests) \/ AnyMissed("COMMIT_DEFERRED_PROOFS")

ControlOK(i) ==
  LET pv == shards[i].pv
      ev == shards[i].events
  IN  /\ MemoryControl(pv.previous_init_addr, pv.last_init_addr,
                       Sorted(ev.global_memory_initialize_events))
      /\ pv.is_untrusted_programs_enabled = 1 =>
           /\ PageProtControl(pv.previous_init_page_idx, pv.last_init_page_idx,
                              Sorted(ev.global_page_prot_initialize_events))
           /\ PageProtControl(pv.previous_finalize_page_idx, pv.last_finalize_page_idx,
                              Sorted(ev.global_page_prot_finalize_events))
      /\ pv.is_untrusted_programs_enabled = 0 => ~ HasPages(ev)

FinalizeOK(i) ==
  MemoryControl(shards[i].pv.previous_finalize_addr, shards[i].pv.last_finalize_addr,
                Sorted(shards[i].events.global_memory_finalize_events))

\* The addresses of the memory and page events a shard initializes and finalizes fit
\* the control interaction of its public values and the constraints of the tables,
\* "If prev_addr == 0 and index == 0, then addr == 0" among them. The only way for
\* split to give a shard events that do not is to leave room for one finalize event
\* beside the last memory initializations, so that address zero is finalized alone.
TablesControlledUnlessAlone ==
  /\ \A i \in DOMAIN shards : ControlOK(i)
  /\ (\E i \in DOMAIN shards : ~ FinalizeOK(i)) =>
       \E i \in DOMAIN shards :
         /\ shards[i].events.global_memory_finalize_events = {0}
         /\ Cardinality(shards[i].events.global_memory_initialize_events) = 2 * memory - 1

\* When the execution is done, the shards the workers sent, in the order in which
\* they sent them, pass every check of SP1Prover::verify on public values but the
\* one of the proof nonce.
ChainVerifies == Done => VerifyLinks(PublicValues, vk, ZeroDigests)

\* "Ensure last record has same proof nonce as other shards": every shard has the
\* nonce of the context, as the verifier's check that all shards of a proof have one
\* nonce requires, but for an execution shard that split has packed page events into.
NonceKeptUnlessPacked ==
  \A i \in DOMAIN shards :
    \/ shards[i].pv.proof_nonce = program.nonce
    \/ shards[i].pv.is_execution_shard = 1 /\ HasPages(shards[i].events)

\* Shard j shows that the call was made and the word it commits to.
Shows(j, call) ==
  LET pv == shards[j].pv IN
  /\ call.op = "COMMIT" =>
       /\ pv.commit_syscall = 1
       /\ pv.committed_value_digest[call.arg] = program.committed[call.arg]
  /\ call.op = "COMMIT_DEFERRED_PROOFS" =>
       /\ pv.commit_deferred_syscall = 1
       /\ pv.deferred_proofs_digest[call.arg] = program.digest[call.arg]

\* A shard that calls COMMIT or COMMIT_DEFERRED_PROOFS shows the word it commits
\* to in its digest (this is what the syscall table checks), and so does every shard
\* after it, wherever the calls are cut into shards. The one exception is a word that
\* an earlier shard ran ahead to and that was stored before that shard.
CommitsShownUnlessMissed ==
  \A i \in DOMAIN shards : \A k \in RanIn(shards[i].pv) :
    program.code[k].op \in Calls =>
      Missed(k) \/ \A j \in i..Len(shards) : Shows(j, program.code[k])

\* How often an event occurs in the shards.
Times(Has(_)) == Cardinality({i \in DOMAIN shards : Has(shards[i].events)})

\* Every event is proved exactly once: a precompile event of an instruction in a
\* shard is in one shard or still deferred, never both, and when the execution is
\* done every memory and page event is in exactly one shard.
EventsConserved ==
  /\ TypeOK
  /\ \A c \in Codes : \A k \in DOMAIN program.code :
       program.code[k] = Precompile(c) =>
         Times(LAMBDA ev : k \in Range(ev.precompile_events[c]))
           + (IF k \in Range(deferred.precompile_events[c]) THEN 1 ELSE 0)
         = IF k < at THEN 1 ELSE 0
  /\ Done =>
       /\ deferred.precompile_events = NoPrecompiles
       /\ \A a \in program.memory.init :
            Times(LAMBDA ev : a \in ev.global_memory_initialize_events) = 1
       /\ \A a \in program.memory.finalize :
            Times(LAMBDA ev : a \in ev.global_memory_finalize_events) = 1
       /\ \A a \in program.pages.init :
            Times(LAMBDA ev : a \in ev.global_page_prot_initialize_events) = 1
       /\ \A a \in program.pages.finalize :
            Times(LAMBDA ev : a \in ev.global_page_prot_finalize_events) = 1
=============================================================================
