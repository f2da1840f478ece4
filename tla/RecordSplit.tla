----------------------------- MODULE RecordSplit -----------------------------
(***************************************************************************)
(* `ExecutionRecord::defer`, `append` and `split` of                       *)
(* crates/core/executor/src/record.rs: the events that are too expensive   *)
(* for every shard are taken out of a record, collected in one deferred    *)
(* record, and split into shards of their own when there are enough of     *)
(* them or the execution is done.                                          *)
(*                                                                         *)
(* A precompile event is a model of its own (a number); a memory or page   *)
(* event is its address or page index. Events of a record that `split`     *)
(* sorts are a set here: no two have the same address.                     *)
(***************************************************************************)
EXTENDS Integers, Sequences, FiniteSets, SequencesExt

CONSTANTS Codes,               \* syscall codes of precompiles
          Retained,            \* codes of opts.retained_events_presets
          syscall_threshold,   \* SplitOpts::syscall_threshold, of every code
          memory,              \* SplitOpts::memory
          page_prot,           \* SplitOpts::page_prot
          combine_memory_threshold,
          combine_page_prot_threshold

\* SplitOpts::new gives thresholds of at least one event, and lets events be
\* packed in an existing shard only if they fit in one shard of their own.
ASSUME SplitOptsAssumption ==
  /\ {syscall_threshold, memory, page_prot} \subseteq Nat \ {0}
  /\ combine_memory_threshold \in 0..memory
  /\ combine_page_prot_threshold \in 0..page_prot
  /\ Retained \subseteq Codes

NoPrecompiles == [c \in Codes |-> <<>>]

\* The events of an ExecutionRecord; `new` has none.
NoEvents ==
  [precompile_events |-> NoPrecompiles,
   global_memory_initialize_events |-> {}, global_memory_finalize_events |-> {},
   global_page_prot_initialize_events |-> {}, global_page_prot_finalize_events |-> {}]

\* What defer takes out of a record, and what it leaves in it.
Deferred(events) ==
  [events EXCEPT !.precompile_events =
     [c \in Codes |-> IF c \in Retained THEN <<>> ELSE events.precompile_events[c]]]

Kept(events) ==
  [NoEvents EXCEPT !.precompile_events =
     [c \in Codes |-> IF c \in Retained THEN events.precompile_events[c] ELSE <<>>]]

Append2(deferred, other) ==
  [precompile_events |->
     [c \in Codes |-> deferred.precompile_events[c] \o other.precompile_events[c]],
   global_memory_initialize_events |->
     deferred.global_memory_initialize_events \cup other.global_memory_initialize_events,
   global_memory_finalize_events |->
     deferred.global_memory_finalize_events \cup other.global_memory_finalize_events,
   global_page_prot_initialize_events |->
     deferred.global_page_prot_initialize_events \cup other.global_page_prot_initialize_events,
   global_page_prot_finalize_events |->
     deferred.global_page_prot_finalize_events \cup other.global_page_prot_finalize_events]

-----------------------------------------------------------------------------
(* The public values split sets in a record. *)

AddrFields ==
  [previous_init_addr |-> 0, last_init_addr |-> 0,
   previous_finalize_addr |-> 0, last_finalize_addr |-> 0,
   previous_init_page_idx |-> 0, last_init_page_idx |-> 0,
   previous_finalize_page_idx |-> 0, last_finalize_page_idx |-> 0]

Blank == [events |-> NoEvents, addr |-> AddrFields]

-----------------------------------------------------------------------------
(* Precompile events: chunks_exact(threshold), the remainder first. *)

NumChunks(s) == Len(s) \div syscall_threshold

Rest(s) == SubSeq(s, NumChunks(s) * syscall_threshold + 1, Len(s))

PrecompileShard(c, s) ==
  [Blank EXCEPT !.events.precompile_events[c] = s]

PrecompileShards(done, c, s) ==
  (IF done /\ Rest(s) # <<>> THEN <<PrecompileShard(c, Rest(s))>> ELSE <<>>)
    \o [i \in 1..NumChunks(s) |->
          PrecompileShard(c, SubSeq(s, (i - 1) * syscall_threshold + 1, i * syscall_threshold))]

-----------------------------------------------------------------------------
(* Memory and page events: every round of the loop takes events to         *)
(* initialize as long as there are any, and fills the shard up with events *)
(* to finalize, both in the order of their addresses. So round r takes the *)
(* r-th `capacity` events of one list, those to initialize and then those  *)
(* to finalize.                                                            *)

\* The addresses of events among the first n in the order of addresses.
FirstOf(S, n) == {a \in S : Cardinality({b \in S : b <= a}) <= n}

\* The last address taken, zero before the first.
LastOf(S) == IF S = {} THEN 0 ELSE Max(S)

Rounds(init, finalize, capacity) ==
  (Cardinality(init) + Cardinality(finalize) + capacity - 1) \div capacity

SlicePreviousLate(init, finalize, capacity, r) ==
  LET i0 == FirstOf(init, (r - 1) * capacity)
      i1 == FirstOf(init, r * capacity)
      f0 == FirstOf(finalize, (r - 1) * capacity - Cardinality(init))
      f1 == FirstOf(finalize, r * capacity - Cardinality(init))
  IN  [init |-> i1 \ i0, finalize |-> f1 \ f0,
       previous_init |-> LastOf(i1), last_init |-> LastOf(i1),
       previous_finalize |-> LastOf(f0), last_finalize |-> LastOf(f1)]

Slice(init, finalize, capacity, r) ==
  LET i0 == FirstOf(init, (r - 1) * capacity)
      i1 == FirstOf(init, r * capacity)
      f0 == FirstOf(finalize, (r - 1) * capacity - Cardinality(init))
      f1 == FirstOf(finalize, r * capacity - Cardinality(init))
  IN  [init |-> i1 \ i0, finalize |-> f1 \ f0,
       previous_init |-> LastOf(i0), last_init |-> LastOf(i1),
       previous_finalize |-> LastOf(f0), last_finalize |-> LastOf(f1)]

\* One round's events and addresses put in a record.
AddPages(record, slice) ==
  [record EXCEPT
     !.events.global_page_prot_initialize_events = @ \cup slice.init,
     !.events.global_page_prot_finalize_events = @ \cup slice.finalize,
     !.addr.previous_init_page_idx = slice.previous_init,
     !.addr.last_init_page_idx = slice.last_init,
     !.addr.previous_finalize_page_idx = slice.previous_finalize,
     !.addr.last_finalize_page_idx = slice.last_finalize]

AddMemory(record, slice) ==
  [record EXCEPT
     !.events.global_memory_initialize_events = @ \cup slice.init,
     !.events.global_memory_finalize_events = @ \cup slice.finalize,
     !.addr.previous_init_addr = slice.previous_init,
     !.addr.last_init_addr = slice.last_init,
     !.addr.previous_finalize_addr = slice.previous_finalize,
     !.addr.last_finalize_addr = slice.last_finalize]

Slices(init, finalize, capacity) ==
  [r \in 1..Rounds(init, finalize, capacity) |-> Slice(init, finalize, capacity, r)]

PageSlices(deferred) ==
  Slices(deferred.global_page_prot_initialize_events,
         deferred.global_page_prot_finalize_events, 2 * page_prot)

MemorySlices(deferred) ==
  Slices(deferred.global_memory_initialize_events,
         deferred.global_memory_finalize_events, 2 * memory)

\* The blank record a memory shard starts from: the page indices reached.
AfterPages(pages) ==
  IF pages = <<>> THEN Blank
  ELSE LET p == pages[Len(pages)] IN
       [Blank EXCEPT !.addr.previous_init_page_idx = p.last_init,
                     !.addr.last_init_page_idx = p.last_init,
                     !.addr.previous_finalize_page_idx = p.last_finalize,
                     !.addr.last_finalize_page_idx = p.last_finalize]

GlobalShards(deferred) ==
  LET pages  == PageSlices(deferred)
      slices == MemorySlices(deferred)
  IN  [r \in DOMAIN pages |-> AddPages(Blank, pages[r])]
        \o [r \in DOMAIN slices |-> AddMemory(AfterPages(pages), slices[r])]

\* All rounds put in one record: the addresses are those of the last round.
Packed(record, deferred) ==
  FoldLeft(AddMemory, FoldLeft(AddPages, record, PageSlices(deferred)), MemorySlices(deferred))

-----------------------------------------------------------------------------
(* can_pack_global_memory: few enough events to go in the last record, if  *)
(* that record is small enough itself.                                     *)
CanPack(done, small, deferred) ==
  /\ done
  /\ small
  /\ \A S \in {deferred.global_memory_initialize_events, deferred.global_memory_finalize_events} :
       Cardinality(S) <= combine_memory_threshold
  /\ \A S \in {deferred.global_page_prot_initialize_events,
               deferred.global_page_prot_finalize_events} :
       Cardinality(S) <= combine_page_prot_threshold

\* The shards of precompile events, in the order a HashMap yields the codes.
AllPrecompileShards(done, order, deferred) ==
  FlattenSeq([i \in 1..Len(order) |->
    PrecompileShards(done, order[i], deferred.precompile_events[order[i]])])

RemainderLost(done, deferred) == [deferred EXCEPT !.precompile_events = NoPrecompiles]

\* The deferred record afterwards: remainders wait for the next call.
Remainder(done, deferred) ==
  [deferred EXCEPT !.precompile_events =
     [c \in Codes |-> IF done THEN <<>> ELSE Rest(deferred.precompile_events[c])]]

\* split: the shards it returns and the last record, which it may pack.
Split(done, can_pack, order, deferred, last) ==
  LET precompiles == AllPrecompileShards(done, order, deferred)
      pack        == done /\ can_pack /\ precompiles = <<>>
  IN  [shards |-> precompiles
                    \o IF done /\ ~ pack THEN GlobalShards(deferred) ELSE <<>>,
       last   |-> IF pack THEN Packed(last, deferred) ELSE last,
       pack   |-> pack]
=============================================================================
