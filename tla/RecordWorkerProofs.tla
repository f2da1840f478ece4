------------------------- MODULE RecordWorkerProofs -------------------------
(***************************************************************************)
(* The steps of RecordPipeline before a worker has its turn preserve the   *)
(* inductive invariant.                                                    *)
(***************************************************************************)
EXTENDS RecordLineProofs

Lines == AllRecords(Line, state) /\ InRange(Line, state)

\* The line of records is kept by a step that moves no record.
LEMMA LinesKept ==
  ASSUME Lines, UNCHANGED <<shard_proofs, proving, records, out, state>>
  PROVE  Lines'
<1>1. Unsent' = Unsent
  BY DEF Unsent
<1>2. Line' = Line
  BY <1>1 DEF Line
<1> QED BY <1>2 DEF Lines

\* A step of a worker that keeps its task, before it has its turn.
LEMMA WorksOn ==
  ASSUME IInv, NEW w \in Workers, pc[w] \in Busy \ {"update", "send"},
         NEW x \in Busy \ {"send"}, pc' = [pc EXCEPT ![w] = x],
         x = "update" => task[w].index = current_turn,
         UNCHANGED <<index, inbox, task, out, current_turn, state>>
  PROVE  Turns' /\ Inboxes' /\ Updates' /\ pc' \in [Workers -> PCs]
<1>1. pc \in [Workers -> PCs] /\ Turns /\ Inboxes /\ Updates
  BY DEF IInv, Types
<1>2. pc'[w] = x /\ \A v \in Workers : v # w => pc'[v] = pc[v]
  BY <1>1
<1>3. pc' \in [Workers -> PCs]
  BY <1>1 DEF PCs, Busy
<1>4. \A v \in Workers : (pc'[v] \in Busy <=> pc[v] \in Busy) /\ (pc'[v] = "send" <=> pc[v] = "send")
  BY <1>2
<1>5. Turns'
  BY <1>1, <1>2, <1>4 DEF Turns
<1>6. Inboxes'
  BY <1>1, <1>4 DEF Inboxes
<1>7. Updates'
  BY <1>1, <1>4 DEF Updates
<1> QED BY <1>3, <1>5, <1>6, <1>7

\* A part of a permit is a number of bytes.
LEMMA PartInt ==
  ASSUME Types, NEW w \in Workers
  PROVE  Part(w) \in Int
<1> DEFINE d == task[w].size - held[w]
<1>1. MaxPermit \in Int /\ d \in Int
  BY SMTT(30), RecordPipelineAssumption DEF Types
<1> HIDE DEF d
<1>2. \E x \in {MaxPermit, d} : \A y \in {MaxPermit, d} : x <= y
  BY <1>1
<1>3. Min({MaxPermit, d}) \in {MaxPermit, d}
  BY <1>2 DEF Min
<1> QED BY <1>1, <1>3 DEF Part, d

\* A worker takes a part of its permit, or waits for it.
LEMMA AcquireStep ==
  ASSUME IInv, NEW w \in Workers, Acquire(w)
  PROVE  IInv'
<1>1. Types /\ Waiting(waiting, pc) /\ pc[w] = "acquire" /\ waiting \in Seq(Workers)
      /\ pc \in [Workers -> PCs]
  BY Zenon DEF IInv, Types, Acquire
<1>2. PICK x \in {"waiting", "trace", "acquire"} : pc' = [pc EXCEPT ![w] = x]
  BY DEF Acquire, Take
<1>3. Turns' /\ Inboxes' /\ Updates' /\ pc' \in [Workers -> PCs]
  BY Zenon, <1>1, <1>2, WorksOn DEF Acquire, turnVars, mainVars, Busy
<1>4. Lines'
  BY LinesKept DEF IInv, Lines, Acquire, turnVars, proverVars
<1>5. held' \in [Workers -> Int]
  <2>1. held \in [Workers -> Int] /\ Part(w) \in Int
    BY Zenon, <1>1, PartInt DEF Types
  <2>2. held' = held \/ held' = [held EXCEPT ![w] = @ + Part(w)]
    BY DEF Acquire, Take
  <2> QED BY <2>1, <2>2
<1>6. Waiting(waiting, pc)' /\ waiting' \in Seq(Workers)
  <2>1. CASE waiting' = waiting
    <3>1. \A v \in Workers : pc[v] = "waiting" => pc'[v] = "waiting"
      BY <1>1, <1>2
    <3>2. Waiting(waiting, pc')
      BY <1>1, <3>1, WaitingKept
    <3> QED BY <1>1, <2>1, <3>2
  <2>2. CASE waiting' = Append(waiting, w) /\ pc' = [pc EXCEPT ![w] = "waiting"]
    <3>1. pc'[w] = "waiting" /\ \A v \in Workers : pc[v] = "waiting" => pc'[v] = "waiting"
      BY <1>1, <2>2
    <3>2. Waiting(Append(waiting, w), pc')
      BY <1>1, <3>1, WaitingAppend
    <3>3. Append(waiting, w) \in Seq(Workers)
      BY <1>1, AppendProperties
    <3> QED BY <2>2, <3>2, <3>3
  <2> QED BY <2>1, <2>2 DEF Acquire
<1>7. Types'
  BY Zenon, <1>1, <1>3, <1>5, <1>6 DEF Types, Acquire, mainVars, turnVars, proverVars
<1> QED BY <1>3, <1>4, <1>6, <1>7 DEF IInv, Lines

\* The semaphore serves the first worker of its line.
LEMMA GrantStep ==
  ASSUME IInv, NEW w \in Workers, Grant(w)
  PROVE  IInv'
<1>1. Types /\ Waiting(waiting, pc) /\ waiting \in Seq(Workers) /\ pc \in [Workers -> PCs]
  BY Zenon DEF IInv, Types
<1>2. waiting # <<>> /\ w = Head(waiting) /\ waiting' = Tail(waiting)
  BY DEF Grant
<1>3. pc[w] = "waiting"
  <2>1. Head(waiting) = waiting[1] /\ 1 \in 1..Len(waiting)
    BY <1>1, <1>2, EmptySeq, HeadTailProperties
  <2> QED BY <1>1, <1>2, <2>1 DEF Waiting
<1>4. PICK x \in {"trace", "acquire"} : pc' = [pc EXCEPT ![w] = x]
  BY Zenon DEF Grant, Take
<1>5. Turns' /\ Inboxes' /\ Updates' /\ pc' \in [Workers -> PCs]
  BY Zenon, <1>3, <1>4, WorksOn DEF Grant, turnVars, mainVars, Busy
<1>6. Lines'
  BY LinesKept DEF IInv, Lines, Grant, turnVars, proverVars
<1>7. held' \in [Workers -> Int]
  <2>1. held \in [Workers -> Int] /\ Part(w) \in Int
    BY Zenon, <1>1, PartInt DEF Types
  <2>2. held' = [held EXCEPT ![w] = @ + Part(w)]
    BY DEF Grant, Take
  <2> QED BY <2>1, <2>2
<1>8. Waiting(waiting, pc)' /\ waiting' \in Seq(Workers)
  <2>1. \A v \in Workers : v # Head(waiting) /\ pc[v] = "waiting" => pc'[v] = "waiting"
    BY <1>1, <1>2, <1>4
  <2>2. Waiting(Tail(waiting), pc')
    BY <1>1, <1>2, <2>1, WaitingTail
  <2>3. Tail(waiting) \in Seq(Workers)
    BY <1>1, <1>2, HeadTailProperties
  <2> QED BY <1>2, <2>2, <2>3
<1>9. Types'
  BY Zenon, <1>1, <1>5, <1>7, <1>8 DEF Types, Grant, mainVars, turnVars, proverVars
<1> QED BY <1>5, <1>6, <1>8, <1>9 DEF IInv, Lines

\* A worker that panics before it has its turn takes its task and its channel with
\* it, and leaves the others as they are.
LEMMA PanicStep ==
  ASSUME IInv, NEW w \in Workers, pc[w] \in {"recv", "trace"}, Panic(w),
         UNCHANGED <<mainVars, out, waiting, turnVars, records, proverVars>>
  PROVE  IInv'
<1>1. /\ Types /\ Waiting(waiting, pc) /\ waiting \in Seq(Workers) /\ pc \in [Workers -> PCs]
      /\ Turns /\ Inboxes /\ Updates /\ inbox \in [Workers -> Seq(Task)]
      /\ task \in [Workers -> [index : Int, size : Nat]] /\ held \in [Workers -> Int]
  BY Zenon DEF IInv, Types
<1>2. /\ pc' = [pc EXCEPT ![w] = "dead"] /\ inbox' = [inbox EXCEPT ![w] = <<>>]
      /\ task' = [task EXCEPT ![w] = NoTask] /\ held' = [held EXCEPT ![w] = 0]
  BY DEF Panic
<1>3. UNCHANGED <<status, index, queue, out, waiting, current_turn, wakers, state, records,
                  proving, shard_proofs, result>>
  BY DEF mainVars, turnVars, proverVars
<1>4. Lines'
  BY <1>3, LinesKept DEF IInv, Lines
<1>5. /\ pc' \in [Workers -> PCs] /\ pc'[w] = "dead" /\ \A v \in Workers : v # w => pc'[v] = pc[v]
  BY <1>1, <1>2 DEF PCs
<1>6. /\ task' \in [Workers -> [index : Int, size : Nat]] /\ held' \in [Workers -> Int]
      /\ \A v \in Workers : v # w => task'[v] = task[v]
  <2>1. NoTask \in [index : Int, size : Nat]
    BY DEF NoTask
  <2> QED BY <1>1, <1>2, <2>1
<1>7. /\ inbox' \in [Workers -> Seq(Task)] /\ Len(inbox'[w]) = 0
      /\ \A v \in Workers : v # w => inbox'[v] = inbox[v]
  BY <1>1, <1>2
<1>8. \A v \in Workers : pc'[v] \in Busy => v # w /\ pc'[v] = pc[v]
  BY <1>5 DEF Busy
<1>9. Waiting(waiting', pc')
  <2>1. \A v \in Workers : pc[v] = "waiting" => pc'[v] = "waiting"
    BY <1>5
  <2>2. Waiting(waiting, pc')
    BY Zenon, <1>1, <2>1, WaitingKept
  <2> QED BY <1>3, <2>2
<1>10. Updates'
  <2>1. \A v \in Workers : (pc'[v] = "send" <=> pc[v] = "send")
    BY <1>5
  <2> QED BY SMTT(30), <1>1, <1>3, <2>1 DEF Updates
<1>11. Turns'
  <2>1. \A v \in Workers : pc'[v] \in {"update", "send"} =>
          v # w /\ pc[v] \in {"update", "send"}
    BY <1>8 DEF Busy
  <2> QED BY SMTT(30), <1>1, <1>3, <1>6, <1>8, <2>1 DEF Turns
<1>12. Inboxes'
  <2>1. \A v \in Workers : \A i \in 1..Len(inbox'[v]) : v # w
    BY <1>7
  <2>2. \A v \in Workers : \A i \in 1..Len(inbox'[v]) :
          inbox'[v][i] = inbox[v][i] /\ i \in 1..Len(inbox[v])
    BY <1>7, <2>1
  <2>3. \A v \in Workers : \A i \in 1..Len(inbox'[v]) :
          inbox'[v][i].index \in current_turn'..(index' - 1)
    BY ZenonT(60), <1>1, <1>3, <2>2 DEF Inboxes
  <2>4. ASSUME NEW u \in Workers, NEW v \in Workers, NEW i \in 1..Len(inbox'[v]), pc'[u] \in Busy
        PROVE  inbox'[v][i].index # task'[u].index
    <3>1. pc[u] \in Busy /\ task'[u] = task[u]
      BY <1>6, <1>8, <2>4
    <3>2. i \in 1..Len(inbox[v]) /\ inbox'[v][i] = inbox[v][i]
      BY <2>2
    <3>3. inbox[v][i].index # task[u].index
      BY SMTT(30), <1>1, <3>1, <3>2 DEF Inboxes
    <3> QED BY <3>1, <3>2, <3>3
  <2>5. ASSUME NEW u \in Workers, NEW v \in Workers, NEW i \in 1..Len(inbox'[u]),
               NEW j \in 1..Len(inbox'[v]), u # v \/ i # j
        PROVE  inbox'[u][i].index # inbox'[v][j].index
    <3>1. i \in 1..Len(inbox[u]) /\ inbox'[u][i] = inbox[u][i]
      BY <2>2
    <3>2. j \in 1..Len(inbox[v]) /\ inbox'[v][j] = inbox[v][j]
      BY <2>2
    <3>3. inbox[u][i].index # inbox[v][j].index
      BY SMTT(30), <1>1, <2>5, <3>1, <3>2 DEF Inboxes
    <3> QED BY <3>1, <3>2, <3>3
  <2> QED BY <2>3, <2>4, <2>5 DEF Inboxes
<1>13. Types'
  BY Zenon, <1>1, <1>3, <1>5, <1>6, <1>7 DEF Types
<1> QED BY <1>4, <1>9, <1>10, <1>11, <1>12, <1>13 DEF IInv, Lines

\* Tracing has no effect that others see, but for the panic at the exit code.
LEMMA TraceStep ==
  ASSUME IInv, NEW w \in Workers, Trace(w)
  PROVE  IInv'
<1>1. Types /\ Waiting(waiting, pc) /\ pc[w] = "trace" /\ waiting \in Seq(Workers)
      /\ pc \in [Workers -> PCs]
  BY Zenon DEF IInv, Types, Trace
<1>2. UNCHANGED <<mainVars, out, waiting, turnVars, records, proverVars>>
  BY DEF Trace
<1>3. CASE ExitRefused(w)
  BY <1>1, <1>2, <1>3, PanicStep DEF Trace
<1>4. CASE ~ ExitRefused(w)
  <2>1. pc' = [pc EXCEPT ![w] = "turn"] /\ UNCHANGED <<inbox, task, held, available>>
    BY <1>4 DEF Trace
  <2>2. Turns' /\ Inboxes' /\ Updates' /\ pc' \in [Workers -> PCs]
    BY Zenon, <1>1, <1>2, <2>1, WorksOn DEF turnVars, mainVars, Busy
  <2>3. Lines'
    BY <1>2, <2>1, LinesKept DEF IInv, Lines, turnVars, proverVars
  <2>4. Waiting(waiting, pc)'
    <3>1. waiting' = waiting /\ \A v \in Workers : pc[v] = "waiting" => pc'[v] = "waiting"
      BY <1>1, <1>2, <2>1
    <3> QED BY <1>1, <3>1, WaitingKept
  <2>5. Types'
    BY Zenon, <1>1, <1>2, <2>1, <2>2 DEF Types, mainVars, turnVars, proverVars
  <2> QED BY <2>2, <2>3, <2>4, <2>5 DEF IInv, Lines
<1> QED BY <1>3, <1>4

\* No worker waits for a turn that has passed.
LEMMA PollStep ==
  ASSUME IInv, NEW w \in Workers, Poll(w)
  PROVE  IInv' /\ \A v \in Workers : pc'[v] = "dead" => pc[v] = "dead"
<1>1. Types /\ Waiting(waiting, pc) /\ pc[w] = "turn" /\ waiting \in Seq(Workers)
      /\ pc \in [Workers -> PCs]
  BY Zenon DEF IInv, Types, Poll
<1>2. ~(current_turn > task[w].index)
  <2>1. task[w].index \in current_turn..(index - 1) /\ current_turn \in Int /\ index \in Int
    BY <1>1 DEF IInv, Turns, Types, Busy
  <2> QED BY <2>1
<1>3. /\ \E x \in {"update", "parked"} :
           pc' = [pc EXCEPT ![w] = x] /\ (x = "update" => task[w].index = current_turn)
      /\ UNCHANGED <<inbox, task, held, available>>
  BY <1>2 DEF Poll
<1>4. PICK x \in {"update", "parked"} :
        pc' = [pc EXCEPT ![w] = x] /\ (x = "update" => task[w].index = current_turn)
  BY Zenon, <1>3
<1>5. UNCHANGED <<mainVars, out, waiting, current_turn, state, records, proverVars>>
  BY DEF Poll
<1>6. Turns' /\ Inboxes' /\ Updates' /\ pc' \in [Workers -> PCs]
  BY Zenon, <1>1, <1>3, <1>4, <1>5, WorksOn DEF mainVars, Busy
<1>7. Lines'
  BY <1>3, <1>5, LinesKept DEF IInv, Lines, proverVars
<1>8. Waiting(waiting, pc)'
  <2>1. waiting' = waiting /\ \A v \in Workers : pc[v] = "waiting" => pc'[v] = "waiting"
    BY <1>1, <1>4, <1>5
  <2> QED BY <1>1, <2>1, WaitingKept
<1>9. Types'
  BY Zenon, <1>1, <1>3, <1>6, <1>5 DEF Types, mainVars, proverVars
<1>10. \A v \in Workers : pc'[v] = "dead" => pc[v] = "dead"
  BY <1>1, <1>4
<1> QED BY <1>6, <1>7, <1>8, <1>9, <1>10 DEF IInv, Lines

\* A worker whose channel is closed and empty ends.
LEMMA StopStep ==
  ASSUME IInv, NEW w \in Workers, Stop(w)
  PROVE  IInv'
<1>1. /\ Types /\ Waiting(waiting, pc) /\ waiting \in Seq(Workers) /\ pc \in [Workers -> PCs]
      /\ Turns /\ Inboxes /\ Updates
  BY Zenon DEF IInv, Types
<1>2. pc[w] = "recv" /\ pc' = [pc EXCEPT ![w] = "stopped"]
  BY DEF Stop
<1>3. /\ \A v \in Workers : pc'[v] \in Busy \/ pc'[v] = "waiting" => pc'[v] = pc[v]
      /\ \A v \in Workers : (pc'[v] = "send" <=> pc[v] = "send")
      /\ \A v \in Workers : pc[v] = "waiting" => pc'[v] = "waiting"
      /\ pc' \in [Workers -> PCs]
  BY <1>1, <1>2 DEF Busy, PCs
<1>4. UNCHANGED <<index, inbox, task, out, current_turn, state, waiting>>
  BY DEF Stop, mainVars, turnVars, memVars
<1>5. Turns'
  <2>1. \A v \in Workers : pc'[v] \in {"update", "send"} => pc[v] \in {"update", "send"}
    BY <1>3 DEF Busy
  <2> QED BY <1>1, <1>3, <1>4, <2>1 DEF Turns
<1>6. Inboxes'
  <2>1. \A v \in Workers : pc'[v] \in Busy => pc[v] \in Busy
    BY <1>3
  <2>2. Inboxes
    BY <1>1
  <2>3. UNCHANGED <<inbox, task, index, current_turn>>
    BY <1>4
  <2> QED BY SMTT(30), <2>1, <2>2, <2>3 DEF Inboxes
<1>7. Updates'
  BY <1>1, <1>3, <1>4 DEF Updates
<1>8. Lines'
  BY LinesKept DEF IInv, Lines, Stop, turnVars, proverVars
<1>9. Waiting(waiting', pc')
  BY <1>1, <1>3, <1>4, WaitingKept
<1>10. Types'
  BY Zenon, <1>1, <1>3 DEF Types, Stop, mainVars, memVars, turnVars, proverVars
<1> QED BY <1>5, <1>6, <1>7, <1>8, <1>9, <1>10 DEF IInv, Lines

\* A checkpoint goes from the channel to its worker, or its worker panics.
LEMMA RecvStep ==
  ASSUME IInv, NEW w \in Workers, Recv(w)
  PROVE  IInv'
<1>1. /\ Types /\ Waiting(waiting, pc) /\ waiting \in Seq(Workers) /\ pc \in [Workers -> PCs]
      /\ Turns /\ Inboxes /\ Updates /\ inbox \in [Workers -> Seq(Task)] /\ Workers # {}
      /\ task \in [Workers -> [index : Int, size : Nat]]
  BY Zenon, RecordPipelineAssumption DEF IInv, Types
<1>2. pc[w] = "recv" /\ inbox[w] # <<>> /\ inbox[w] \in Seq(Task)
  BY <1>1 DEF Recv
<1>3. UNCHANGED <<status, index, queue, out, waiting, current_turn, wakers,
                  state, records, proving, shard_proofs, result>>
  BY DEF Recv, mainVars, turnVars, proverVars
<1>4. Lines'
  BY <1>3, LinesKept DEF IInv, Lines
<1> DEFINE t == Head(inbox[w])
<1>5. CASE ~(t.size \in 1..record_buffer_size)
  <2>1. Panic(w) /\ UNCHANGED <<mainVars, out, waiting, turnVars, records, proverVars>>
    BY <1>5 DEF Recv
  <2> QED BY <1>2, <2>1, PanicStep
<1>6. CASE t.size \in 1..record_buffer_size
  <2>1. /\ inbox' = [inbox EXCEPT ![w] = Tail(inbox[w])] /\ pc' = [pc EXCEPT ![w] = "acquire"]
        /\ task' = [task EXCEPT ![w] = t] /\ held' = held
    BY <1>6 DEF Recv
  <2>2. /\ t \in Task /\ t = inbox[w][1] /\ Tail(inbox[w]) \in Seq(Task)
        /\ Len(Tail(inbox[w])) = Len(inbox[w]) - 1
        /\ \A i \in 1..Len(Tail(inbox[w])) : Tail(inbox[w])[i] = inbox[w][i + 1]
    BY <1>2, HeadTailProperties
  <2>3. Len(inbox[w]) \in Nat \ {0}
    BY <1>2, EmptySeq
  <2>4. /\ inbox' \in [Workers -> Seq(Task)] /\ inbox'[w] = Tail(inbox[w])
        /\ \A v \in Workers : v # w => inbox'[v] = inbox[v]
    BY <1>1, <2>1, <2>2
  <2>5. /\ task' \in [Workers -> [index : Int, size : Nat]] /\ task'[w] = t
        /\ \A v \in Workers : v # w => task'[v] = task[v]
    <3> HIDE DEF t
    <3>1. t \in [index : Int, size : Nat]
      <4>1. \A z \in RecordSizes : z \in Nat
        BY RecordPipelineAssumption
      <4>2. t \in [index : Nat, size : RecordSizes]
        BY <2>2 DEF Task
      <4> QED BY <4>1, <4>2
    <3> QED BY <1>1, <2>1, <3>1
  <2> HIDE DEF t
  <2>6. ASSUME NEW i \in 1..Len(inbox'[w])
        PROVE  i + 1 \in 1..Len(inbox[w]) /\ i + 1 # 1 /\ inbox'[w][i] = inbox[w][i + 1]
    BY <2>2, <2>3, <2>4
  <2>7. 1 \in 1..Len(inbox[w])
    BY <2>3
  <2>8. /\ t.index \in current_turn..(index - 1)
        /\ \A v \in Workers : v # w /\ pc[v] \in Busy => task[v].index # t.index
    BY ZenonT(60), <1>1, <2>2, <2>7 DEF Inboxes
  <2>9. /\ pc' \in [Workers -> PCs] /\ pc'[w] = "acquire"
        /\ \A v \in Workers : v # w => pc'[v] = pc[v]
    BY <1>1, <2>1 DEF PCs
  <2>10. Turns'
    <3>1. \A v \in Workers : pc'[v] \in Busy => task'[v].index \in current_turn..(index - 1)
      BY Zenon, <1>1, <2>5, <2>8, <2>9 DEF Turns
    <3>2. \A v \in Workers : pc'[v] \in {"update", "send"} => task'[v].index = current_turn
      BY Zenon, <1>1, <2>5, <2>9 DEF Turns
    <3>3. ASSUME NEW v \in Workers, NEW u \in Workers, v # u, pc'[v] \in Busy, pc'[u] \in Busy
          PROVE  task'[v].index # task'[u].index
      <4>1. CASE v = w
        BY <2>5, <2>8, <2>9, <3>3, <4>1
      <4>2. CASE u = w
        BY <2>5, <2>8, <2>9, <3>3, <4>2
      <4>3. CASE v # w /\ u # w
        BY <1>1, <2>5, <2>9, <3>3, <4>3 DEF Turns
      <4> QED BY <4>1, <4>2, <4>3
    <3> QED BY SMTT(30), <1>1, <1>3, <3>1, <3>2, <3>3 DEF Turns
  \* A position of a channel, before the step.
  <2> DEFINE at(v, i) == IF v = w THEN i + 1 ELSE i
  <2>11. ASSUME NEW v \in Workers, NEW i \in 1..Len(inbox'[v])
         PROVE  /\ at(v, i) \in 1..Len(inbox[v]) /\ inbox'[v][i] = inbox[v][at(v, i)]
                /\ v # w \/ at(v, i) # 1
    BY Zenon, <2>4, <2>6
  <2>12. ASSUME NEW v \in Workers, NEW i \in Int, NEW j \in Int, i # j
         PROVE  at(v, i) # at(v, j)
    BY <2>12
  <2> HIDE DEF at
  <2>13. Inboxes'
    <3>1. ASSUME NEW v \in Workers, NEW i \in 1..Len(inbox'[v])
          PROVE  inbox'[v][i].index \in current_turn..(index - 1)
      <4>1. PICK k \in 1..Len(inbox[v]) : inbox'[v][i] = inbox[v][k]
        BY <2>11
      <4> QED BY <1>1, <4>1 DEF Inboxes
    <3>2. ASSUME NEW u \in Workers, NEW v \in Workers, NEW i \in 1..Len(inbox'[v]),
                 pc'[u] \in Busy
          PROVE  inbox'[v][i].index # task'[u].index
      <4>1. PICK k \in 1..Len(inbox[v]) : inbox'[v][i] = inbox[v][k] /\ (v # w \/ k # 1)
        BY SMTT(30), <2>11
      <4>2. CASE u # w
        <5>1. pc[u] \in Busy /\ task'[u] = task[u]
          BY <2>5, <2>9, <3>2, <4>2
        <5>2. inbox[v][k].index # task[u].index
          BY <1>1, <5>1 DEF Inboxes
        <5> QED BY <4>1, <5>1, <5>2
      <4>3. CASE u = w
        <5>1. inbox[v][k].index # inbox[w][1].index
          BY <1>1, <2>7, <4>1 DEF Inboxes
        <5> QED BY SMTT(30), <2>2, <2>5, <4>1, <4>3, <5>1
      <4> QED BY <4>2, <4>3
    <3>3. ASSUME NEW u \in Workers, NEW v \in Workers, NEW i \in 1..Len(inbox'[u]),
                 NEW j \in 1..Len(inbox'[v]), u # v \/ i # j
          PROVE  inbox'[u][i].index # inbox'[v][j].index
      <4>1. PICK k \in 1..Len(inbox[u]) : inbox'[u][i] = inbox[u][k] /\ k = at(u, i)
        BY ZenonT(40), <2>11
      <4>2. PICK m \in 1..Len(inbox[v]) : inbox'[v][j] = inbox[v][m] /\ m = at(v, j)
        BY SMTT(30), <2>11
      <4>3. u # v \/ k # m
        BY <2>12, <3>3, <4>1, <4>2
      <4>4. inbox[u][k].index # inbox[v][m].index
        BY SMTT(30), <1>1, <4>3 DEF Inboxes
      <4> QED BY <4>1, <4>2, <4>4
    <3> QED BY <1>3, <3>1, <3>2, <3>3 DEF Inboxes
  <2>14. Types'
    BY Zenon, <1>1, <1>3, <2>1, <2>4, <2>5, <2>9 DEF Types
  <2>15. Waiting(waiting', pc')
    <3>1. \A v \in Workers : pc[v] = "waiting" => pc'[v] = "waiting"
      BY <1>2, <2>9
    <3> QED BY Zenon, <1>1, <1>3, <3>1, WaitingKept
  <2>16. Updates'
    <3>1. \A v \in Workers : (pc'[v] = "send" <=> pc[v] = "send")
      BY <1>2, <2>9
    <3> QED BY SMTT(30), <1>1, <1>3, <3>1 DEF Updates
  <2> QED BY <1>4, <2>10, <2>13, <2>14, <2>15, <2>16 DEF IInv, Lines
<1> QED BY <1>5, <1>6

\* A new checkpoint has an index that none had before.
LEMMA SendTaskStep ==
  ASSUME IInv, NEW size \in RecordSizes, NEW done \in BOOLEAN, NEW code \in ExitCodes,
         SendTask(size, done, code)
  PROVE  IInv'
<1> DEFINE w == Head(queue)
<1>1. /\ Types /\ Turns /\ Inboxes /\ Updates /\ Waiting(waiting, pc)
      /\ inbox \in [Workers -> Seq(Task)] /\ index \in Nat /\ queue \in Seq(Workers) /\ queue # <<>>
  BY Zenon DEF IInv, Types
<1>2. UNCHANGED <<pc, task, held, out, available, waiting, current_turn, wakers, state, records,
                  proving, shard_proofs, result>>
  BY DEF SendTask, memVars, turnVars, proverVars
<1>3. Lines'
  BY <1>2, LinesKept DEF IInv, Lines
<1>4. Updates' /\ Waiting(waiting, pc)'
  BY <1>1, <1>2 DEF Updates
<1>5. w \in Workers /\ queue' \in Seq(Workers) /\ queue' # <<>>
  <2>1. w \in Workers /\ Tail(queue) \in Seq(Workers)
    BY <1>1, HeadTailProperties
  <2>2. queue' = Append(Tail(queue), w)
    BY DEF SendTask
  <2> HIDE DEF w
  <2> QED BY <2>1, <2>2, AppendProperties
<1>6. CASE pc[w] = "dead"
  <2>1. status' = "failed" /\ index' = index /\ inbox' = inbox
    BY <1>6 DEF SendTask
  <2>2. Turns'
    BY SMTT(30), <1>1, <1>2, <2>1 DEF Turns
  <2>3. Inboxes'
    BY <1>1, <1>2, <2>1 DEF Inboxes
  <2>4. Types'
    BY Zenon, <1>1, <1>2, <1>5, <2>1 DEF Types
  <2> QED BY <1>3, <1>4, <2>2, <2>3, <2>4 DEF IInv, Lines
<1>7. CASE pc[w] # "dead"
  <2> DEFINE t == [index |-> index, size |-> size]
  <2>1. /\ inbox' = [inbox EXCEPT ![w] = Append(inbox[w], t)] /\ index' = index + 1
        /\ status' \in {"returned", status}
    BY <1>7 DEF SendTask
  <2>2. t \in Task /\ t.index = index
    BY <1>1 DEF Task
  <2> HIDE DEF t, w
  <2>3. inbox[w] \in Seq(Task) /\ Len(inbox[w]) \in Nat
    BY <1>1, <1>5, LenProperties
  <2>4. /\ Append(inbox[w], t) \in Seq(Task) /\ Len(Append(inbox[w], t)) = Len(inbox[w]) + 1
        /\ Append(inbox[w], t)[Len(inbox[w]) + 1] = t
        /\ \A i \in 1..Len(inbox[w]) : Append(inbox[w], t)[i] = inbox[w][i]
    BY SMTT(30), <2>2, <2>3, AppendProperties
  <2>5. /\ inbox' \in [Workers -> Seq(Task)] /\ inbox'[w] = Append(inbox[w], t)
        /\ \A v \in Workers : v # w => inbox'[v] = inbox[v]
    BY <1>1, <1>5, <2>1, <2>4
  <2>6. ASSUME NEW v \in Workers, NEW i \in 1..Len(inbox'[v])
        PROVE  \/ i \in 1..Len(inbox[v]) /\ inbox'[v][i] = inbox[v][i]
               \/ v = w /\ i = Len(inbox[w]) + 1 /\ inbox'[v][i].index = index
    <3>1. CASE v # w
      BY <2>5, <3>1
    <3>2. CASE v = w
      <4>1. i \in 1..Len(inbox[w]) \/ i = Len(inbox[w]) + 1
        BY <2>3, <2>4, <2>5, <3>2
      <4> QED BY <2>2, <2>4, <2>5, <3>2, <4>1
    <3> QED BY <3>1, <3>2
  <2>7. /\ current_turn \in Nat /\ current_turn <= index
        /\ \A n \in current_turn..(index - 1) : n \in current_turn..(index' - 1) /\ n # index
        /\ index \in current_turn..(index' - 1)
    <3>1. current_turn \in Nat /\ current_turn <= index /\ index' = index + 1
      BY SMTT(30), <1>1, <2>1 DEF Types, Turns
    <3> QED BY <1>1, <3>1
  <2>8. Turns'
    <3>1. current_turn' <= index'
      BY SMTT(30), <1>1, <1>2, <2>1, <2>7
    <3>2. \A v \in Workers : pc'[v] \in Busy => task'[v].index \in current_turn'..(index' - 1)
      BY <1>1, <1>2, <2>7 DEF Turns
    <3> QED BY <1>1, <1>2, <3>1, <3>2 DEF Turns
  <2>9. ASSUME NEW v \in Workers, NEW i \in 1..Len(inbox[v])
        PROVE  inbox[v][i].index \in current_turn..(index - 1)
    BY <1>1 DEF Inboxes
  <2>10. Inboxes'
    <3>1. ASSUME NEW v \in Workers, NEW i \in 1..Len(inbox'[v])
          PROVE  inbox'[v][i].index \in current_turn..(index' - 1)
      BY SMTT(30), <2>6, <2>7, <2>9
    <3>2. ASSUME NEW u \in Workers, NEW v \in Workers, NEW i \in 1..Len(inbox'[v]), pc[u] \in Busy
          PROVE  inbox'[v][i].index # task[u].index
      <4>1. CASE i \in 1..Len(inbox[v]) /\ inbox'[v][i] = inbox[v][i]
        BY <1>1, <3>2, <4>1 DEF Inboxes
      <4>2. CASE inbox'[v][i].index = index
        <5>1. task[u].index \in current_turn..(index - 1)
          BY <1>1, <3>2 DEF Turns
        <5> QED BY <2>7, <4>2, <5>1
      <4> QED BY <2>6, <4>1, <4>2
    <3>3. ASSUME NEW u \in Workers, NEW v \in Workers, NEW i \in 1..Len(inbox'[u]),
                 NEW j \in 1..Len(inbox'[v]), u # v \/ i # j
          PROVE  inbox'[u][i].index # inbox'[v][j].index
      <4>1. CASE /\ i \in 1..Len(inbox[u]) /\ inbox'[u][i] = inbox[u][i]
                 /\ j \in 1..Len(inbox[v]) /\ inbox'[v][j] = inbox[v][j]
        BY SMTT(30), <1>1, <3>3, <4>1 DEF Inboxes
      <4>2. CASE /\ i \in 1..Len(inbox[u]) /\ inbox'[u][i] = inbox[u][i]
                 /\ inbox'[v][j].index = index
        BY <2>7, <2>9, <4>2
      <4>3. CASE /\ j \in 1..Len(inbox[v]) /\ inbox'[v][j] = inbox[v][j]
                 /\ inbox'[u][i].index = index
        BY <2>7, <2>9, <4>3
      <4>4. ~(/\ u = w /\ i = Len(inbox[w]) + 1
              /\ v = w /\ j = Len(inbox[w]) + 1)
        BY <3>3
      <4> QED BY SMTT(30), <2>6, <4>1, <4>2, <4>3, <4>4
    <3> QED BY SMTT(30), <1>2, <3>1, <3>2, <3>3 DEF Inboxes
  <2>11. Types'
    <3>1. index' \in Nat
      BY <1>1, <2>1
    <3>2. status' \in {"running", "returned", "failed"}
      BY <1>1, <2>1 DEF Types
    <3> QED BY Zenon, <1>1, <1>2, <1>5, <2>5, <3>1, <3>2 DEF Types
  <2> QED BY <1>3, <1>4, <2>8, <2>10, <2>11 DEF IInv, Lines
<1> QED BY <1>6, <1>7
=============================================================================
