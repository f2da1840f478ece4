------------------------- MODULE RecordResultProofs -------------------------
(***************************************************************************)
(* Theorems about RecordPipeline when every record fits in the buffer: one *)
(* worker at most panics, the one that traces the last checkpoint of a     *)
(* guest whose exit code is not zero. Every other checkpoint has its turn, *)
(* and a proof that prove_core returns lacks no other record.              *)
(***************************************************************************)
EXTENDS RecordPipelineProofs

(* Records that fit in the buffer. *)

Fits == RecordSizes \subseteq 1..record_buffer_size

\* A worker at p, with task t and channel b, has checkpoint n.
Has(p, t, b, n) ==
  \/ p \in Busy /\ t.index = n
  \/ \E i \in 1..Len(b) : b[i].index = n

Held(n) == \E w \in Workers : Has(pc[w], task[w], inbox[w], n)

Dead == \E w \in Workers : pc[w] = "dead"

\* Where a worker is after its checkpoint has been traced.
Traced == {"turn", "parked", "update", "send"}

\* One worker at most is dead, with the last checkpoint; every other checkpoint whose
\* turn has not ended is with a worker.
Alive ==
  /\ \A v, w \in Workers : pc[v] = "dead" /\ pc[w] = "dead" => v = w
  /\ Dead => exit_code # 0 /\ ~ Held(index - 1)
  /\ \A n \in current_turn..(index - 1) : Held(n) \/ (Dead /\ n = index - 1)

\* A checkpoint that ends with a refused exit code is the last one, and is not traced.
Refused ==
  exit_code # 0 =>
    /\ status = "returned" /\ current_turn < index
    /\ \A w \in Workers : pc[w] \in Traced => task[w].index # index - 1

\* A channel has the last checkpoint after all others.
Last ==
  \A w \in Workers :
    /\ pc[w] \in Busy /\ task[w].index = index - 1 => Len(inbox[w]) = 0
    /\ \A i \in 1..Len(inbox[w]) : inbox[w][i].index = index - 1 => i = Len(inbox[w])

Good == Alive /\ Refused /\ Last

\* No worker gets or loses a checkpoint, and none that is refused is traced.
LEMMA GoodKept ==
  ASSUME Good,
         \A v \in Workers : pc'[v] = "dead" <=> pc[v] = "dead",
         \A v \in Workers : pc'[v] \in Busy <=> pc[v] \in Busy,
         \A v \in Workers : pc'[v] \in Traced /\ exit_code # 0 /\ task[v].index = index - 1 =>
                              pc[v] \in Traced,
         UNCHANGED <<index, exit_code, inbox, task, current_turn>>,
         status' = status \/ status = "running"
  PROVE  Good'
<1>1. Dead' <=> Dead
  BY DEF Dead
<1>2. ASSUME NEW n
      PROVE  Held(n)' <=> Held(n)
  BY DEF Held, Has
<1>3. Held(index - 1)' <=> Held(index - 1)
  BY <1>2 DEF Held
<1>4. Alive'
  BY <1>1, <1>2, <1>3 DEF Good, Alive
<1>5. Refused'
  BY DEF Good, Refused
<1>6. Last'
  BY DEF Good, Last
<1> QED BY <1>4, <1>5, <1>6 DEF Good

\* A new checkpoint is in the channel of a worker that lives.
LEMMA SendTaskGood ==
  ASSUME IInv, Good, NEW size \in RecordSizes, NEW done \in BOOLEAN, NEW code \in ExitCodes,
         SendTask(size, done, code)
  PROVE  Good'
<1> DEFINE w == Head(queue)
           t == [index |-> index, size |-> size]
<1>1. /\ inbox \in [Workers -> Seq(Task)] /\ index \in Nat /\ current_turn \in Nat
      /\ w \in Workers /\ current_turn <= index
  BY HeadTailProperties DEF IInv, Types, Turns
<1>2. exit_code = 0 /\ ~ Dead
  BY DEF SendTask, Good, Refused, Alive
<1>3. /\ inbox' = [inbox EXCEPT ![w] = Append(inbox[w], t)] /\ index' = index + 1
      /\ exit_code' = code /\ status' = IF done THEN "returned" ELSE status
      /\ pc' = pc /\ task' = task /\ current_turn' = current_turn
  <2>1. pc[w] # "dead"
    BY <1>1, <1>2 DEF Dead
  <2> QED BY <2>1 DEF SendTask, turnVars
<1>4. code # 0 => done
  BY DEF SendTask
<1>5. t \in Task /\ t.index = index
  BY <1>1 DEF Task
<1> HIDE DEF t, w
<1>6. inbox[w] \in Seq(Task) /\ Len(inbox[w]) \in Nat
  BY <1>1, LenProperties
<1>7. /\ Len(Append(inbox[w], t)) = Len(inbox[w]) + 1
      /\ Append(inbox[w], t)[Len(inbox[w]) + 1] = t
      /\ \A i \in 1..Len(inbox[w]) : Append(inbox[w], t)[i] = inbox[w][i]
  BY <1>5, <1>6, AppendProperties
<1>8. inbox'[w] = Append(inbox[w], t) /\ \A v \in Workers : v # w => inbox'[v] = inbox[v]
  BY <1>1, <1>3
<1>9. /\ \A v \in Workers : pc[v] \in Busy => task[v].index # index
      /\ \A v \in Workers : \A i \in 1..Len(inbox[v]) : inbox[v][i].index # index
  <2>1. \A n \in current_turn..(index - 1) : n # index
    BY <1>1
  <2> QED BY <2>1 DEF IInv, Turns, Inboxes
<1>10. Has(pc'[w], task'[w], inbox'[w], index)
  <2>1. Len(inbox[w]) + 1 \in 1..Len(inbox'[w]) /\ inbox'[w][Len(inbox[w]) + 1].index = index
    BY SMTT(30), <1>5, <1>6, <1>7, <1>8
  <2> QED BY SMTT(30), <2>1 DEF Has
<1>11. ASSUME NEW n, NEW v \in Workers, Has(pc[v], task[v], inbox[v], n)
       PROVE  Has(pc'[v], task'[v], inbox'[v], n)
  <2>1. CASE pc[v] \in Busy /\ task[v].index = n
    BY <1>3, <2>1 DEF Has
  <2>2. ASSUME NEW i \in 1..Len(inbox[v]), inbox[v][i].index = n
        PROVE  Has(pc'[v], task'[v], inbox'[v], n)
    <3>1. i \in 1..Len(inbox'[v]) /\ inbox'[v][i] = inbox[v][i]
      BY SMTT(30), <1>6, <1>7, <1>8
    <3> QED BY <2>2, <3>1 DEF Has
  <2> QED BY SMTT(30), <1>11, <2>1, <2>2 DEF Has
<1>12. ASSUME NEW n \in current_turn'..(index' - 1)
       PROVE  Held(n)'
  <2>1. n \in current_turn..(index - 1) \/ n = index
    BY <1>1, <1>3
  <2>2. CASE n = index
    BY <1>1, <1>10, <2>2 DEF Held
  <2>3. CASE n \in current_turn..(index - 1)
    <3>1. PICK v \in Workers : Has(pc[v], task[v], inbox[v], n)
      BY <1>2, <2>3 DEF Good, Alive, Held
    <3>2. Has(pc'[v], task'[v], inbox'[v], n)
      BY <1>11, <3>1
    <3> QED BY <3>2 DEF Held
  <2> QED BY <2>1, <2>2, <2>3
<1>13. Alive'
  <2>1. ~ Dead'
    BY <1>2, <1>3 DEF Dead
  <2>2. \A v \in Workers : pc'[v] # "dead"
    BY <2>1 DEF Dead
  <2> QED BY <1>12, <2>1, <2>2 DEF Alive
<1>14. Refused'
  <2>1. code # 0 => status' = "returned"
    BY <1>3, <1>4
  <2>2. current_turn' < index' /\ index' - 1 = index
    BY <1>1, <1>3
  <2>3. \A v \in Workers : pc'[v] \in Traced => task'[v].index # index
    BY <1>3, <1>9 DEF Traced, Busy
  <2> QED BY <1>3, <2>1, <2>2, <2>3 DEF Refused
<1>15. Last'
  <2>1. index' - 1 = index
    BY <1>1, <1>3
  <2>2. ASSUME NEW v \in Workers, NEW i \in 1..Len(inbox'[v]), inbox'[v][i].index = index
        PROVE  i = Len(inbox'[v])
    <3>1. CASE v # w
      BY <1>8, <1>9, <2>2, <3>1
    <3>2. CASE v = w
      <4>1. i \in 1..Len(inbox[w]) \/ i = Len(inbox[w]) + 1
        BY <1>6, <1>7, <1>8, <3>2
      <4>2. CASE i \in 1..Len(inbox[w])
        BY SMTT(30), <1>1, <1>7, <1>8, <1>9, <2>2, <3>2, <4>2
      <4>3. CASE i = Len(inbox[w]) + 1
        BY SMTT(30), <1>7, <1>8, <3>2, <4>3
      <4> QED BY <4>1, <4>2, <4>3
    <3> QED BY <3>1, <3>2
  <2>3. \A v \in Workers : pc'[v] \in Busy => task'[v].index # index
    BY <1>3, <1>9
  <2> QED BY <2>1, <2>2, <2>3 DEF Last
<1> QED BY <1>13, <1>14, <1>15 DEF Good

\* acquire refuses no record that fits.
LEMMA RecvGood ==
  ASSUME Fits, IInv, Good, NEW w \in Workers, Recv(w)
  PROVE  Good'
<1> DEFINE t == Head(inbox[w])
<1>1. /\ inbox \in [Workers -> Seq(Task)] /\ pc \in [Workers -> PCs]
      /\ task \in [Workers -> [index : Int, size : Nat]]
  BY Zenon DEF IInv, Types
<1>2. inbox[w] \in Seq(Task) /\ inbox[w] # <<>> /\ pc[w] = "recv"
  BY <1>1 DEF Recv
<1>3. /\ t \in Task /\ t = inbox[w][1] /\ Len(Tail(inbox[w])) = Len(inbox[w]) - 1
      /\ \A i \in 1..Len(Tail(inbox[w])) : Tail(inbox[w])[i] = inbox[w][i + 1]
  BY <1>2, HeadTailProperties
<1>4. t.size \in 1..record_buffer_size
  <2>1. t.size \in RecordSizes
    BY <1>3 DEF Task
  <2> QED BY Zenon, <2>1 DEF Fits
<1>5. /\ inbox' = [inbox EXCEPT ![w] = Tail(inbox[w])] /\ pc' = [pc EXCEPT ![w] = "acquire"]
      /\ task' = [task EXCEPT ![w] = t]
      /\ UNCHANGED <<index, exit_code, status, current_turn>>
  BY <1>4 DEF Recv, mainVars, turnVars
<1>6. Len(inbox[w]) \in Nat \ {0} /\ 1 \in 1..Len(inbox[w])
  BY <1>2, EmptySeq
<1> HIDE DEF t
<1>7. /\ inbox'[w] = Tail(inbox[w]) /\ pc'[w] = "acquire" /\ task'[w] = t
      /\ \A v \in Workers : v # w => inbox'[v] = inbox[v] /\ pc'[v] = pc[v] /\ task'[v] = task[v]
  BY SMTT(30), <1>1, <1>5
\* What is left in the channel was there before, one place further.
<1>8. ASSUME NEW i \in 1..Len(inbox'[w])
      PROVE  i + 1 \in 1..Len(inbox[w]) /\ inbox'[w][i] = inbox[w][i + 1]
  BY <1>3, <1>6, <1>7
<1>9. ASSUME NEW n
      PROVE  Has(pc'[w], task'[w], inbox'[w], n) <=> Has(pc[w], task[w], inbox[w], n)
  <2>1. ASSUME Has(pc[w], task[w], inbox[w], n)
        PROVE  Has(pc'[w], task'[w], inbox'[w], n)
    <3>1. PICK i \in 1..Len(inbox[w]) : inbox[w][i].index = n
      BY SMTT(30), <1>2, <2>1 DEF Has, Busy
    <3>2. CASE i = 1
      BY SMTT(30), <1>3, <1>7, <3>1, <3>2 DEF Has, Busy
    <3>3. CASE i # 1
      <4>1. i - 1 \in 1..Len(Tail(inbox[w])) /\ (i - 1) + 1 = i
        BY <1>3, <1>6, <3>3
      <4>2. Tail(inbox[w])[i - 1] = inbox[w][i]
        BY <1>3, <4>1
      <4>3. i - 1 \in 1..Len(inbox'[w]) /\ inbox'[w][i - 1].index = n
        BY Zenon, <1>7, <3>1, <4>1, <4>2
      <4> QED BY <4>3 DEF Has
    <3> QED BY <3>2, <3>3
  <2>2. ASSUME Has(pc'[w], task'[w], inbox'[w], n)
        PROVE  Has(pc[w], task[w], inbox[w], n)
    <3>1. CASE task'[w].index = n
      BY SMTT(30), <1>3, <1>6, <1>7, <3>1 DEF Has
    <3>2. CASE \E i \in 1..Len(inbox'[w]) : inbox'[w][i].index = n
      BY <1>8, <3>2 DEF Has
    <3> QED BY <2>2, <3>1, <3>2 DEF Has
  <2> QED BY <2>1, <2>2
<1>10. ASSUME NEW n
       PROVE  Held(n)' <=> Held(n)
  <2>1. \A v \in Workers : Has(pc'[v], task'[v], inbox'[v], n) <=> Has(pc[v], task[v], inbox[v], n)
    BY <1>7, <1>9
  <2> QED BY <2>1 DEF Held
<1>11. Held(index - 1)' <=> Held(index - 1)
  BY SMTT(30), <1>5, <1>10 DEF Held
<1>12. \A v \in Workers : pc'[v] = "dead" <=> pc[v] = "dead"
  BY <1>2, <1>7
<1>13. Alive'
  <2>1. Dead' <=> Dead
    BY <1>12 DEF Dead
  <2> QED BY <1>5, <1>10, <1>11, <1>12, <2>1 DEF Good, Alive
<1>14. Refused'
  <2>1. \A v \in Workers : pc'[v] \in Traced => v # w
    BY <1>7 DEF Traced
  <2> QED BY <1>5, <1>7, <2>1 DEF Good, Refused
<1>15. Last'
  <2>1. ASSUME t.index = index - 1
        PROVE  Len(inbox'[w]) = 0
    <3>1. 1 = Len(inbox[w])
      BY Zenon, <1>3, <1>6, <2>1 DEF Good, Last
    <3> QED BY <1>3, <1>7, <3>1
  <2>2. ASSUME NEW i \in 1..Len(inbox'[w]), inbox'[w][i].index = index - 1
        PROVE  i = Len(inbox'[w])
    <3>1. i + 1 = Len(inbox[w])
      BY <1>8, <2>2 DEF Good, Last
    <3> QED BY <1>3, <1>6, <1>7, <3>1
  <2> QED BY SMTT(30), <1>5, <1>7, <2>1, <2>2 DEF Good, Last
<1> QED BY <1>13, <1>14, <1>15 DEF Good

\* The worker of a checkpoint that is refused dies, and nothing else is lost with it.
LEMMA TraceGood ==
  ASSUME IInv, Good, NEW w \in Workers, Trace(w)
  PROVE  Good'
<1>1. /\ pc \in [Workers -> PCs] /\ inbox \in [Workers -> Seq(Task)]
      /\ task \in [Workers -> [index : Int, size : Nat]] /\ index \in Nat /\ current_turn \in Nat
  BY Zenon DEF IInv, Types
<1>2. pc[w] = "trace" /\ UNCHANGED <<index, exit_code, status, current_turn>>
  BY DEF Trace, mainVars, turnVars
<1>3. CASE ~ ExitRefused(w)
  <2>1. pc' = [pc EXCEPT ![w] = "turn"] /\ UNCHANGED <<inbox, task>>
    BY <1>3 DEF Trace
  <2>2. /\ pc'[w] = "turn" /\ \A v \in Workers : v # w => pc'[v] = pc[v]
        /\ ~(exit_code # 0 /\ task[w].index = index - 1)
    BY <1>1, <1>3, <2>1 DEF ExitRefused
  <2>3. /\ \A v \in Workers : pc'[v] = "dead" <=> pc[v] = "dead"
        /\ \A v \in Workers : pc'[v] \in Busy <=> pc[v] \in Busy
        /\ \A v \in Workers : pc'[v] \in Traced /\ exit_code # 0 /\ task[v].index = index - 1 =>
                                pc[v] \in Traced
    BY SMTT(30), <1>2, <2>2 DEF Busy
  <2> QED BY <1>2, <2>1, <2>3, GoodKept
<1>4. CASE ExitRefused(w)
  <2>1. /\ pc' = [pc EXCEPT ![w] = "dead"] /\ inbox' = [inbox EXCEPT ![w] = <<>>]
        /\ task' = [task EXCEPT ![w] = NoTask]
    BY <1>4 DEF Trace, Panic
  <2>2. /\ pc'[w] = "dead" /\ inbox'[w] = <<>>
        /\ \A v \in Workers : v # w => pc'[v] = pc[v] /\ inbox'[v] = inbox[v] /\ task'[v] = task[v]
    BY <1>1, <2>1
  <2>3. exit_code # 0 /\ task[w].index = index - 1 /\ pc[w] \in Busy
    BY <1>2, <1>4 DEF ExitRefused, Busy
  <2>4. Held(index - 1) /\ ~ Dead
    <3>1. Held(index - 1)
      BY <2>3 DEF Held, Has
    <3> QED BY <3>1 DEF Good, Alive
  <2>5. Len(inbox[w]) = 0
    BY <2>3 DEF Good, Last
  <2>6. ASSUME NEW v \in Workers, v # w
        PROVE  ~ Has(pc[v], task[v], inbox[v], index - 1)
    <3>1. pc[v] \in Busy => task[v].index # index - 1
      BY <2>3, <2>6 DEF IInv, Turns
    <3>2. \A i \in 1..Len(inbox[v]) : inbox[v][i].index # index - 1
      BY <2>3 DEF IInv, Inboxes
    <3> QED BY <3>1, <3>2 DEF Has
  <2>7. \A n : ~ Has(pc'[w], task'[w], inbox'[w], n)
    <3>1. Len(inbox'[w]) = 0
      BY <2>2
    <3> QED BY <2>2, <3>1 DEF Has, Busy
  <2>8. ASSUME NEW n, n # index - 1, Held(n)
        PROVE  Held(n)'
    <3>1. PICK v \in Workers : Has(pc[v], task[v], inbox[v], n)
      BY <2>8 DEF Held
    <3>2. v # w
      <4>1. ~ Has(pc[w], task[w], inbox[w], n)
        BY <2>3, <2>5, <2>8 DEF Has
      <4> QED BY <3>1, <4>1
    <3>3. Has(pc'[v], task'[v], inbox'[v], n)
      BY <2>2, <3>1, <3>2
    <3> QED BY <3>3 DEF Held
  <2>9. ~ Held(index - 1)'
    <3>1. \A v \in Workers : ~ Has(pc'[v], task'[v], inbox'[v], index' - 1)
      BY <1>2, <2>2, <2>6, <2>7
    <3> QED BY <3>1 DEF Held
  <2>10. Alive'
    <3>1. \A v \in Workers : pc'[v] = "dead" => v = w
      BY <2>2, <2>4 DEF Dead
    <3>2. Dead'
      BY <2>2 DEF Dead
    <3>3. ASSUME NEW n \in current_turn'..(index' - 1)
          PROVE  Held(n)' \/ (Dead' /\ n = index' - 1)
      <4>1. n \in current_turn..(index - 1)
        BY <1>2
      <4>2. CASE n = index - 1
        BY <1>2, <3>2, <4>2
      <4>3. CASE n # index - 1
        BY SMTT(30), <2>4, <2>8, <4>1, <4>3 DEF Good, Alive
      <4> QED BY <4>2, <4>3
    <3> QED BY SMTT(30), <1>2, <2>3, <2>9, <3>1, <3>2, <3>3 DEF Alive
  <2>11. Refused'
    <3>1. \A v \in Workers : pc'[v] \in Traced => v # w
      BY <2>2 DEF Traced
    <3> QED BY SMTT(30), <1>2, <2>2, <3>1 DEF Good, Refused
  <2>12. Last'
    <3>1. pc'[w] \notin Busy /\ Len(inbox'[w]) = 0
      BY <2>2 DEF Busy
    <3> QED BY <1>2, <2>2, <3>1 DEF Good, Last
  <2> QED BY <2>10, <2>11, <2>12 DEF Good
<1> QED BY <1>3, <1>4

\* The turn that ends is over, and is not that of a checkpoint that is refused.
LEMMA DropGuardGood ==
  ASSUME IInv, Good, NEW w \in Workers, DropGuard(w)
  PROVE  Good'
<1>1. /\ task \in [Workers -> [index : Int, size : Nat]] /\ current_turn \in Nat /\ index \in Nat
      /\ Turns /\ Inboxes
  BY DEF IInv, Types
<1>2. /\ pc[w] = "send" /\ task[w].index = current_turn /\ current_turn' = current_turn + 1
      /\ task' = [task EXCEPT ![w] = NoTask] /\ inbox' = inbox
      /\ UNCHANGED <<index, exit_code, status>>
  BY <1>1 DEF DropGuard, mainVars, Turns
<1>3. /\ pc'[w] = "recv"
      /\ \A v \in Workers : v # w => pc'[v] = pc[v] \/ (pc[v] = "parked" /\ pc'[v] = "turn")
      /\ \A v \in Workers : v # w => task'[v] = task[v]
  BY <1>1, <1>2 DEF DropGuard
<1>4. /\ \A v \in Workers : pc'[v] = "dead" <=> pc[v] = "dead"
      /\ \A v \in Workers : v # w => (pc'[v] \in Busy <=> pc[v] \in Busy)
      /\ \A v \in Workers : v # w => (pc'[v] \in Traced <=> pc[v] \in Traced)
  BY SMTT(30), <1>2, <1>3 DEF Busy, Traced
<1>5. ASSUME NEW n, n # current_turn, NEW v \in Workers, Has(pc[v], task[v], inbox[v], n)
      PROVE  Has(pc'[v], task'[v], inbox'[v], n)
  <2>1. CASE v # w
    BY SMTT(30), <1>2, <1>3, <1>4, <1>5, <2>1 DEF Has
  <2>2. CASE v = w
    BY SMTT(30), <1>2, <1>5, <2>2 DEF Has
  <2> QED BY SMTT(30), <2>1, <2>2
<1>6. ASSUME NEW n, NEW v \in Workers, Has(pc'[v], task'[v], inbox'[v], n)
      PROVE  Has(pc[v], task[v], inbox[v], n)
  <2>1. CASE v # w
    BY SMTT(30), <1>2, <1>3, <1>4, <1>6, <2>1 DEF Has
  <2>2. CASE v = w
    BY <1>2, <1>3, <1>6, <2>2 DEF Has, Busy
  <2> QED BY SMTT(30), <2>1, <2>2
<1>7. ASSUME NEW n \in current_turn'..(index' - 1)
      PROVE  n \in current_turn..(index - 1) /\ n # current_turn
  BY SMTT(30), <1>1, <1>2
<1>8. Dead' <=> Dead
  BY <1>4 DEF Dead
<1>9. Alive'
  <2>1. Dead => exit_code # 0 /\ ~ Held(index - 1)'
    <3>1. Held(index - 1)' => Held(index - 1)
      BY <1>2, <1>6 DEF Held
    <3> QED BY <3>1 DEF Good, Alive
  <2>2. ASSUME NEW n \in current_turn'..(index' - 1)
        PROVE  Held(n)' \/ (Dead /\ n = index - 1)
    <3>1. Held(n) \/ (Dead /\ n = index - 1)
      BY <1>7 DEF Good, Alive
    <3>2. Held(n) => Held(n)'
      BY <1>5, <1>7 DEF Held
    <3> QED BY <3>1, <3>2
  <2> QED BY <1>2, <1>4, <1>8, <2>1, <2>2 DEF Good, Alive
<1>10. Refused'
  <2> SUFFICES ASSUME exit_code # 0
               PROVE  Refused'
    BY <1>2 DEF Refused
  <2>1. current_turn # index - 1 /\ current_turn < index
    BY <1>2 DEF Good, Refused, Traced
  <2>2. current_turn' < index'
    BY <1>1, <1>2, <2>1
  <2>3. \A v \in Workers : pc'[v] \in Traced => v # w
    BY SMTT(30), <1>3 DEF Traced
  <2> QED BY SMTT(30), <1>2, <1>3, <1>4, <2>2, <2>3 DEF Good, Refused
<1>11. Last'
  <2>1. pc'[w] \notin Busy
    BY <1>3 DEF Busy
  <2> QED BY SMTT(30), <1>2, <1>3, <1>4, <2>1 DEF Good, Last
<1> QED BY <1>9, <1>10, <1>11 DEF Good

\* No step loses a checkpoint or ends a worker, but the trace of one that is refused.
LEMMA NextGood ==
  ASSUME Fits, IInv, Good, [Next]_vars
  PROVE  Good'
<1>0. pc \in [Workers -> PCs]
  BY DEF IInv, Types
<1>1. CASE \E size \in RecordSizes, done \in BOOLEAN, code \in ExitCodes :
             SendTask(size, done, code)
  BY <1>1, SendTaskGood
<1>2. ASSUME UNCHANGED <<index, exit_code, inbox, pc, task, current_turn>>,
             status' = status \/ status = "running"
      PROVE  Good'
  BY <1>2, GoodKept
\* A worker that goes from one place to another with its checkpoint, or without one.
<1>3. ASSUME NEW w \in Workers, NEW x, pc' = [pc EXCEPT ![w] = x],
             UNCHANGED <<index, exit_code, status, inbox, task, current_turn>>,
             pc[w] # "dead", x # "dead", x \in Busy <=> pc[w] \in Busy,
             x \in Traced => pc[w] \in Traced
      PROVE  Good'
  <2>1. pc'[w] = x /\ \A v \in Workers : v # w => pc'[v] = pc[v]
    BY <1>0, <1>3
  <2>2. /\ \A v \in Workers : pc'[v] = "dead" <=> pc[v] = "dead"
        /\ \A v \in Workers : pc'[v] \in Busy <=> pc[v] \in Busy
        /\ \A v \in Workers : pc'[v] \in Traced => pc[v] \in Traced
    BY <1>3, <2>1
  <2> QED BY <1>3, <2>2, GoodKept
<1>4. ASSUME NEW w \in Workers, Worker(w)
      PROVE  Good'
  <2>1. CASE Recv(w)
    BY <2>1, RecvGood
  <2>2. CASE Acquire(w)
    <3>1. /\ pc[w] = "acquire"
          /\ \E x \in {"waiting", "trace", "acquire"} : pc' = [pc EXCEPT ![w] = x]
          /\ UNCHANGED <<index, exit_code, status, inbox, task, current_turn>>
      BY <2>2 DEF Acquire, Take, mainVars, turnVars
    <3> QED BY Zenon, <1>3, <3>1 DEF Busy, Traced
  <2>3. CASE Grant(w)
    <3>1. pc[w] = "waiting"
      <4>1. waiting \in Seq(Workers) /\ waiting # <<>> /\ w = Head(waiting)
        BY <2>3 DEF IInv, Types, Grant
      <4>2. Head(waiting) = waiting[1] /\ 1 \in 1..Len(waiting)
        BY <4>1, EmptySeq, HeadTailProperties
      <4> QED BY <4>1, <4>2 DEF IInv, Waiting
    <3>2. /\ \E x \in {"trace", "acquire"} : pc' = [pc EXCEPT ![w] = x]
          /\ UNCHANGED <<index, exit_code, status, inbox, task, current_turn>>
      BY Zenon, <2>3 DEF Grant, Take, mainVars, turnVars
    <3> QED BY Zenon, <1>3, <3>1, <3>2 DEF Busy, Traced
  <2>4. CASE Trace(w)
    BY <2>4, TraceGood
  <2>5. CASE Poll(w)
    <3>1. \A v \in Workers : pc'[v] = "dead" => pc[v] = "dead"
      BY <2>5, PollStep
    <3>2. pc[w] = "turn" /\ UNCHANGED <<index, exit_code, status, current_turn>>
      BY <2>5 DEF Poll, mainVars
    <3>3. ~(current_turn > task[w].index)
      <4>1. ASSUME current_turn > task[w].index
            PROVE  pc' = [pc EXCEPT ![w] = "dead"]
        BY SMTT(30), <2>5, <4>1 DEF Poll, Panic
      <4> QED BY <1>0, <3>1, <3>2, <4>1
    <3>4. /\ \E x \in {"update", "parked"} : pc' = [pc EXCEPT ![w] = x]
          /\ UNCHANGED <<inbox, task>>
      BY <2>5, <3>3 DEF Poll
    <3> QED BY Zenon, <1>3, <3>2, <3>4 DEF Busy, Traced
  <2>6. CASE \E deferred \in 0..MaxDeferred : Update(w, deferred)
    <3>1. /\ pc[w] = "update" /\ pc' = [pc EXCEPT ![w] = "send"]
          /\ UNCHANGED <<index, exit_code, status, inbox, task, current_turn>>
      BY Zenon, <2>6 DEF Update, mainVars
    <3> QED BY Zenon, <1>3, <3>1 DEF Busy, Traced
  <2>7. CASE Send(w)
    BY <1>2, <2>7 DEF Send, mainVars, turnVars
  <2>8. CASE DropGuard(w)
    BY <2>8, DropGuardGood
  <2>9. CASE Stop(w)
    <3>1. /\ pc[w] = "recv" /\ pc' = [pc EXCEPT ![w] = "stopped"]
          /\ UNCHANGED <<index, exit_code, status, inbox, task, current_turn>>
      BY SMTT(30), <2>9 DEF Stop, mainVars, turnVars
    <3> QED BY Zenon, <1>3, <3>1 DEF Busy, Traced
  <2> QED BY SMTT(30), <1>4, <2>1, <2>2, <2>3, <2>4, <2>5, <2>6, <2>7, <2>8, <2>9 DEF Worker
<1>5. CASE ExecutionError
  BY <1>2, <1>5 DEF ExecutionError, turnVars
<1>6. CASE RecvRecord \/ Proving \/ NextProof \/ Return \/ UNCHANGED vars
  BY Zenon, <1>2, <1>6 DEF RecvRecord, Proving, ProveShard, NextProof, Return, vars,
                           mainVars, turnVars
<1> QED BY SMTT(30), <1>1, <1>4, <1>5, <1>6 DEF Next, Execute

\* At the start there is no checkpoint, and no worker is dead.
LEMMA InitGood == Init => Good
<1> SUFFICES ASSUME Init PROVE Good
  OBVIOUS
<1>1. /\ index = 0 /\ current_turn = 0 /\ exit_code = 0
      /\ \A w \in Workers : pc[w] = "recv" /\ inbox[w] = <<>>
  BY DEF Init
<1>2. \A n \in current_turn..(index - 1) : FALSE
  BY <1>1
<1>3. Alive
  BY SMTT(30), <1>1, <1>2 DEF Alive, Dead
<1>4. Refused
  BY SMTT(30), <1>1 DEF Refused
<1>5. Last
  BY <1>1 DEF Last, Busy
<1> QED BY SMTT(30), <1>3, <1>4, <1>5 DEF Good

\* For any workers, and records that fit in the buffer: the one panic of a worker is
\* that of the last checkpoint of a guest that halts with a non-zero exit code, when
\* the main loop has no more to send. acquire refuses no size, and AsyncTurnFuture is
\* never polled after its turn has passed.
THEOREM OnlyExitPanics ==
  ASSUME Fits
  PROVE  Spec => []NoWorkerDiesUnlessExit
<1>1. IInv /\ Good /\ [Next]_vars => Good'
  BY NextGood
<1>2. Good => NoWorkerDiesUnlessExit
  <2> SUFFICES ASSUME Good, NEW v \in Workers, NEW w \in Workers, pc[v] = "dead", pc[w] = "dead"
               PROVE  v = w /\ exit_code # 0 /\ status = "returned"
    BY DEF NoWorkerDiesUnlessExit
  <2>1. v = w /\ exit_code # 0
    BY DEF Good, Alive, Dead
  <2> QED BY <2>1 DEF Good, Refused
<1> QED BY <1>1, <1>2, InitGood, Invariance, PTL DEF Spec

-----------------------------------------------------------------------------
(* The result of prove_core. *)

\* When prove_core has returned a proof nothing is left to do.
Over ==
  result = "ok" => status = "returned" /\ SendersGone /\ records = <<>> /\ proving = <<>>

\* Nothing happens after prove_core has returned a proof, but workers that stop.
LEMMA NextOver ==
  ASSUME IInv, Over, [Next]_vars
  PROVE  Over'
<1> SUFFICES ASSUME result' = "ok"
             PROVE  status' = "returned" /\ SendersGone' /\ records' = <<>> /\ proving' = <<>>
  BY DEF Over
<1>0. pc \in [Workers -> PCs] /\ proving \in Seq(ShardProof)
  BY DEF IInv, Types
<1>1. CASE Return
  <2>1. UNCHANGED <<status, inbox, pc, records, proving>>
    BY SMTT(30), <1>1 DEF Return, mainVars
  <2>2. status = "returned" /\ SendersGone /\ records = <<>> /\ proving = <<>>
    BY SMTT(30), <1>1 DEF Return
  <2> QED BY SMTT(30), <2>1, <2>2 DEF SendersGone
<1>2. ASSUME result = "ok", [Next]_vars, ~ Return
      PROVE  /\ UNCHANGED <<status, inbox, records, proving>>
             /\ \A w \in Workers : pc'[w] = pc[w] \/ pc'[w] = "stopped"
  <2>1. /\ status = "returned" /\ records = <<>> /\ proving = <<>>
        /\ \A w \in Workers : inbox[w] = <<>> /\ pc[w] \in {"recv", "stopped", "dead"}
    BY SMTT(30), <1>2 DEF Over, SendersGone
  <2>2. ~ Execute /\ ~ RecvRecord /\ ~ Proving /\ ~ NextProof
    <3>1. DOMAIN proving = {}
      BY <2>1
    <3> QED BY SMTT(30), <2>1, <3>1 DEF Execute, SendTask, ExecutionError, RecvRecord, Proving,
                                        NextProof
  <2>3. ASSUME NEW w \in Workers, Worker(w)
        PROVE  Stop(w)
    <3>1. ~ Grant(w)
      <4>1. SUFFICES ASSUME Grant(w) PROVE FALSE
        BY SMTT(30)
      <4>2. waiting \in Seq(Workers) /\ waiting # <<>> /\ w = Head(waiting)
        BY <4>1 DEF IInv, Types, Grant
      <4>3. Head(waiting) = waiting[1] /\ 1 \in 1..Len(waiting)
        BY SMTT(30), <4>2, EmptySeq, HeadTailProperties
      <4>4. pc[w] = "waiting"
        BY SMTT(30), <4>2, <4>3 DEF IInv, Waiting
      <4> QED BY <2>1, <4>4
    <3>2. ~ Recv(w)
      BY <2>1 DEF Recv
    <3>3. pc[w] \notin {"acquire", "trace", "turn", "update", "send"}
      BY SMTT(30), <2>1
    <3>4. /\ ~ Acquire(w) /\ ~ Trace(w) /\ ~ Poll(w) /\ ~ Send(w) /\ ~ DropGuard(w)
          /\ \A deferred \in 0..MaxDeferred : ~ Update(w, deferred)
      BY ZenonT(40), <3>3 DEF Acquire, Trace, Poll, Send, DropGuard, Update
    <3> QED BY SMTT(30), <2>3, <3>1, <3>2, <3>4 DEF Worker
  <2>4. CASE \E w \in Workers : Stop(w)
    BY SMTT(30), <1>0, <2>4 DEF Stop, mainVars, proverVars
  <2>5. CASE UNCHANGED vars
    BY <2>5 DEF vars, mainVars, proverVars
  <2> QED BY SMTT(30), <1>2, <2>2, <2>3, <2>4, <2>5 DEF Next
<1>3. CASE ~ Return
  <2>1. result = "ok"
    BY ZenonT(40), <1>3
       DEF Next, Execute, SendTask, ExecutionError, Worker, Recv, Acquire, Grant, Trace, Panic,
           Poll, Update, Send, DropGuard, Stop, RecvRecord, Proving, ProveShard, NextProof, vars,
           proverVars
  <2>2. /\ UNCHANGED <<status, inbox, records, proving>>
        /\ \A w \in Workers : pc'[w] = pc[w] \/ pc'[w] = "stopped"
    BY <1>2, <1>3, <2>1
  <2> QED BY SMTT(30), <2>1, <2>2 DEF Over, SendersGone
<1> QED BY <1>1, <1>3

\* If every record fits in the buffer and prove_core returns a proof, shard_proofs has
\* every record of every turn, in order, and every checkpoint has had its turn: all of
\* them if the guest's exit code is zero, all but the last one if it is not.
THEOREM ProofComplete ==
  ASSUME Fits
  PROVE  Spec => []ResultCompleteUnlessExit
<1>1. Init => Over
  BY DEF Init, Over
<1>2. IInv /\ Good /\ Over /\ [Next]_vars => Good' /\ Over'
  BY SMTT(30), NextGood, NextOver
<1>3. IInv /\ Good /\ Over => ResultCompleteUnlessExit
  <2> SUFFICES ASSUME IInv, Good, Over, result = "ok"
               PROVE  /\ AllRecords(shard_proofs, state)
                      /\ Len(state) = IF exit_code = 0 THEN index ELSE index - 1
    BY DEF ResultCompleteUnlessExit
  <2>1. /\ \A w \in Workers : inbox[w] = <<>> /\ pc[w] \in {"recv", "stopped", "dead"}
        /\ records = <<>> /\ proving = <<>>
    BY SMTT(30) DEF Over, SendersGone
  <2>2. current_turn \in Nat /\ index \in Nat /\ current_turn <= index /\ shard_proofs \in Seq(Id)
    BY SMTT(30) DEF IInv, Types, Turns
  <2>3. \A n \in current_turn..(index - 1) : exit_code # 0 /\ n = index - 1
    <3>1. \A n : ~ Held(n)
      BY <2>1 DEF Held, Has, Busy
    <3> QED BY <3>1 DEF Good, Alive
  <2>4. current_turn = IF exit_code = 0 THEN index ELSE index - 1
    <3>1. ASSUME current_turn # index
          PROVE  exit_code # 0 /\ current_turn = index - 1
      <4>1. current_turn \in current_turn..(index - 1)
        BY SMTT(30), <2>2, <3>1
      <4> QED BY <2>3, <4>1
    <3>2. exit_code # 0 => current_turn # index
      BY <2>2 DEF Good, Refused
    <3> QED BY <3>1, <3>2
  <2>5. Len(state) = current_turn
    <3>1. (IF \E w \in Workers : pc[w] = "send" THEN 1 ELSE 0) = 0
      BY SMTT(30), <2>1
    <3>2. Len(state) = current_turn + IF \E w \in Workers : pc[w] = "send" THEN 1 ELSE 0
      BY DEF IInv, Updates
    <3> QED BY SMTT(30), <2>2, <3>1, <3>2
  <2>6. Line = shard_proofs
    <3>1. \A w \in Workers : out[w] = <<>>
      BY SMTT(30), <2>1 DEF IInv, Updates
    <3>2. Unsent = UnsentOf(out) /\ UnsentOf(out) = <<>>
      BY <3>1, NoSender DEF Unsent, UnsentOf
    <3>3. Line = ((shard_proofs \o <<>>) \o <<>>) \o <<>>
      BY Zenon, <2>1, <3>2, IdsEmpty DEF Line
    <3> QED BY SMTT(30), <2>2, <3>3, ConcatEmptySeq
  <2> QED BY SMTT(30), <2>4, <2>5, <2>6 DEF IInv
<1> QED BY <1>1, <1>2, <1>3, InitGood, Invariance, PTL DEF Spec
=============================================================================
