------------------------ MODULE RecordPipelineProofs ------------------------
(***************************************************************************)
(* Theorems about RecordPipeline, for any number of workers, checkpoints   *)
(* and deferred shards, and for every size of the record buffer.           *)
(*                                                                         *)
(* A checkpoint whose turn has not ended is in one place: in the channel   *)
(* of a worker or with a worker. So one worker at most has the index of    *)
(* the current turn, nobody waits for a turn that has passed, and the      *)
(* records are sent by one worker at a time. From there to shard_proofs    *)
(* they go through channels that keep their order, so the line of all      *)
(* records changes only at its end, in a turn.                             *)
(***************************************************************************)
EXTENDS RecordWorkerProofs, FiniteSetTheorems

(* The steps of a turn, and of the task that proves. *)

\* A turn adds its records at the end of the line, when no other worker has any.
LEMMA UpdateStep ==
  ASSUME IInv, NEW w \in Workers, NEW deferred \in 0..MaxDeferred, Update(w, deferred)
  PROVE  IInv'
<1>1. /\ Types /\ Turns /\ Inboxes /\ Updates /\ Waiting(waiting, pc) /\ Lines
      /\ pc \in [Workers -> PCs] /\ out \in [Workers -> Seq(Record)] /\ state \in Seq(Turn)
      /\ waiting \in Seq(Workers)
  BY Zenon DEF IInv, Types, Lines
<1>2. pc[w] = "update" /\ task[w].index = current_turn /\ pc' = [pc EXCEPT ![w] = "send"]
  BY <1>1 DEF Update, Turns
<1>3. UNCHANGED <<status, index, queue, inbox, task, available, waiting, current_turn, wakers,
                  records, proving, shard_proofs, result>>
  BY DEF Update, mainVars, memVars, proverVars
<1>4. \A v \in Workers : pc[v] # "send" /\ out[v] = <<>>
  <2>1. \A v \in Workers : v # w => pc[v] \notin {"update", "send"} /\ out[v] = <<>>
    BY <1>1, <1>2, SendsAlone
  <2> QED BY <1>1, <1>2, <2>1 DEF Updates
<1>5. Len(state) = current_turn /\ current_turn \in Nat
  <2>1. current_turn \in Nat
    BY <1>1 DEF Types
  <2>2. Len(state) = current_turn + IF \E v \in Workers : pc[v] = "send" THEN 1 ELSE 0
    BY <1>1 DEF Updates
  <2>3. (IF \E v \in Workers : pc[v] = "send" THEN 1 ELSE 0) = 0
    BY <1>4
  <2> QED BY <2>1, <2>2, <2>3
<1>6. deferred \in Nat
  BY RecordPipelineAssumption
<1> DEFINE t == [index |-> current_turn, deferred |-> deferred]
           o == [j \in 1..(deferred + 1) |->
                   [id |-> <<current_turn, j - 1>>, permit |-> IF j = 1 THEN held[w] ELSE 0]]
<1>7. t \in Turn /\ t.deferred = deferred /\ t.index = current_turn
  BY <1>5, <1>6 DEF Turn
<1>8. /\ o \in Seq(Record) /\ Len(o) = deferred + 1
      /\ \A j \in 1..Len(o) : o[j].id = <<Len(state), j - 1>>
  <2>1. held[w] \in Int
    BY <1>1 DEF Types
  <2>2. ASSUME NEW j \in 1..(deferred + 1)
        PROVE  [id |-> <<current_turn, j - 1>>, permit |-> IF j = 1 THEN held[w] ELSE 0] \in Record
    <3>1. <<current_turn, j - 1>> \in Id
      BY <1>5, <1>6 DEF Id
    <3> QED BY <2>1, <3>1 DEF Record
  <2> QED BY <1>5, <1>6, <2>2
<1>9. state' = Append(state, t) /\ out' = [out EXCEPT ![w] = o] /\ held' = [held EXCEPT ![w] = 0]
  BY <1>2 DEF Update
<1> HIDE DEF t, o
<1>10. /\ out' \in [Workers -> Seq(Record)] /\ out'[w] = o
       /\ \A v \in Workers : v # w => out'[v] = <<>>
  BY SMTT(30), <1>1, <1>4, <1>8, <1>9
<1>11. /\ Ids(o) \in Seq(Id) /\ Len(Ids(o)) = t.deferred + 1
       /\ \A j \in 1..Len(Ids(o)) : Ids(o)[j] = <<Len(state), j - 1>>
  <2>1. \A x \in Record : x.id \in Id
    BY DEF Record
  <2>2. /\ Ids(o) \in Seq(Id) /\ Len(Ids(o)) = Len(o)
        /\ \A i \in 1..Len(o) : Ids(o)[i] = o[i].id
    BY Zenon, <1>8, <2>1, IdsOf
  <2> QED BY Zenon, <1>7, <1>8, <2>2
<1> DEFINE l == shard_proofs \o Ids(proving) \o Ids(records)
<1>12. l \in Seq(Id)
  <2>1. (\A x \in Record : x.id \in Id) /\ (\A x \in ShardProof : x.id \in Id)
    BY DEF Record, ShardProof
  <2>2. shard_proofs \in Seq(Id) /\ proving \in Seq(ShardProof) /\ records \in Seq(Record)
    BY <1>1 DEF Types
  <2>3. Ids(proving) \in Seq(Id) /\ Ids(records) \in Seq(Id)
    BY <2>1, <2>2, IdsOf
  <2> QED BY <2>2, <2>3, ConcatProperties
<1>13. Line = l
  <2>1. Unsent = UnsentOf(out)
    BY DEF Unsent, UnsentOf
  <2>2. Unsent = <<>>
    BY <1>4, <2>1, NoSender
  <2>3. Line = l \o <<>>
    BY <2>2 DEF Line
  <2> HIDE DEF l
  <2> QED BY <1>12, <2>3, ConcatEmptySeq
<1>14. Line' = l \o Ids(o)
  <2>1. Unsent' = UnsentOf(out')
    BY DEF Unsent, UnsentOf
  <2>2. UnsentOf(out') = Ids(out'[w])
    BY <1>10, OneSender
  <2>3. Unsent' = Ids(o)
    BY <1>10, <2>1, <2>2
  <2> QED BY <1>3, <2>3 DEF Line
<1> HIDE DEF l
<1>15. Lines'
  <2>1. AllRecords(l, state) /\ InRange(l, state)
    BY SMTT(30), <1>1, <1>13 DEF Lines
  <2>2. AllRecords(l \o Ids(o), Append(state, t)) /\ InRange(l \o Ids(o), Append(state, t))
    BY Zenon, <1>1, <1>7, <1>11, <1>12, <2>1, Extend
  <2> QED BY <1>9, <1>14, <2>2 DEF Lines
<1>16. /\ pc' \in [Workers -> PCs] /\ pc'[w] = "send" /\ \A v \in Workers : v # w => pc'[v] = pc[v]
  BY <1>1, <1>2 DEF PCs
<1>17. \A v \in Workers : pc'[v] \in Busy <=> pc[v] \in Busy
  BY <1>2, <1>16 DEF Busy
<1>18. Turns'
  <2>1. \A v \in Workers : pc'[v] \in {"update", "send"} => pc[v] \in {"update", "send"}
    BY SMTT(30), <1>2, <1>16
  <2> QED BY <1>1, <1>3, <1>17, <2>1 DEF Turns
<1>19. Inboxes'
  BY <1>1, <1>3, <1>17 DEF Inboxes
<1>20. Updates'
  <2>1. /\ state' \in Seq(Turn) /\ Len(state') = Len(state) + 1 /\ state'[Len(state) + 1] = t
        /\ \A k \in 1..Len(state) : state'[k] = state[k]
    BY <1>1, <1>7, <1>9, AppendProperties
  <2>2. ASSUME NEW k \in 1..Len(state')
        PROVE  state'[k].index = k - 1
    <3>1. k \in 1..Len(state) \/ k = Len(state) + 1
      BY <1>5, <2>1
    <3>2. CASE k \in 1..Len(state)
      BY Zenon, <1>1, <2>1, <3>2 DEF Updates
    <3>3. CASE k = Len(state) + 1
      BY <1>5, <1>7, <2>1, <3>3
    <3> QED BY <3>1, <3>2, <3>3
  <2>3. \A v \in Workers : pc'[v] # "send" => out'[v] = <<>>
    BY <1>10, <1>16
  <2>4. Len(state') = current_turn' + IF \E v \in Workers : pc'[v] = "send" THEN 1 ELSE 0
    BY <1>3, <1>5, <1>16, <2>1
  <2> QED BY <2>2, <2>3, <2>4 DEF Updates
<1>21. Waiting(waiting', pc')
  <2>1. \A v \in Workers : pc[v] = "waiting" => pc'[v] = "waiting"
    BY <1>2, <1>16
  <2> QED BY SMTT(30), <1>1, <1>3, <2>1, WaitingKept
<1>22. Types'
  <2>1. state' \in Seq(Turn)
    BY <1>1, <1>7, <1>9, AppendProperties
  <2>2. held' \in [Workers -> Int]
    BY <1>1, <1>9 DEF Types
  <2> QED BY Zenon, <1>1, <1>3, <1>10, <1>16, <2>1, <2>2 DEF Types
<1> QED BY <1>15, <1>18, <1>19, <1>20, <1>21, <1>22 DEF IInv, Lines

\* A record goes from the worker in turn to the end of the channel.
LEMMA SendStep ==
  ASSUME IInv, NEW w \in Workers, Send(w)
  PROVE  IInv'
<1>1. /\ Types /\ Turns /\ Inboxes /\ Updates /\ Waiting(waiting, pc) /\ Lines
      /\ out \in [Workers -> Seq(Record)] /\ records \in Seq(Record)
  BY Zenon DEF IInv, Types, Lines
<1>2. /\ pc[w] = "send" /\ out[w] # <<>> /\ out[w] \in Seq(Record)
      /\ records' = Append(records, Head(out[w])) /\ out' = [out EXCEPT ![w] = Tail(out[w])]
  BY <1>1 DEF Send
<1>3. UNCHANGED <<status, index, queue, inbox, pc, task, held, available, waiting, current_turn,
                  wakers, state, proving, shard_proofs, result>>
  BY DEF Send, mainVars, memVars, turnVars, proverVars
<1>4. \A v \in Workers : v # w => out[v] = <<>>
  BY <1>1, <1>2, SendsAlone
<1>5. (\A x \in Record : x.id \in Id) /\ (\A x \in ShardProof : x.id \in Id)
  BY DEF Record, ShardProof
<1>6. /\ Ids(out[w]) # <<>> /\ Head(out[w]) \in Record /\ Head(Ids(out[w])) = Head(out[w]).id
      /\ Tail(out[w]) \in Seq(Record) /\ Ids(Tail(out[w])) = Tail(Ids(out[w]))
  BY Zenon, <1>2, <1>5, IdsTail
<1>7. /\ out' \in [Workers -> Seq(Record)] /\ out'[w] = Tail(out[w])
      /\ \A v \in Workers : v # w => out'[v] = <<>>
  BY <1>1, <1>2, <1>4, <1>6
<1> DEFINE a == shard_proofs \o Ids(proving)
           h == Head(Ids(out[w]))
<1>8. a \in Seq(Id) /\ Ids(records) \in Seq(Id) /\ Ids(out[w]) \in Seq(Id)
  <2>1. shard_proofs \in Seq(Id) /\ proving \in Seq(ShardProof)
    BY <1>1 DEF Types
  <2>2. Ids(proving) \in Seq(Id) /\ Ids(records) \in Seq(Id) /\ Ids(out[w]) \in Seq(Id)
    BY Zenon, <1>1, <1>2, <1>5, <2>1, IdsOf
  <2> QED BY <2>1, <2>2, ConcatProperties
<1>9. h \in Id
  BY <1>6, <1>8, HeadTailProperties
<1>10. Line = (a \o Ids(records)) \o Ids(out[w])
  <2>1. Unsent = UnsentOf(out)
    BY DEF Unsent, UnsentOf
  <2>2. Unsent = Ids(out[w])
    BY <1>4, <2>1, OneSender
  <2> QED BY <2>2 DEF Line
<1>11. Line' = (a \o Append(Ids(records), h)) \o Tail(Ids(out[w]))
  <2>1. Unsent' = UnsentOf(out')
    BY DEF Unsent, UnsentOf
  <2>2. UnsentOf(out') = Ids(out'[w])
    BY Zenon, <1>7, OneSender
  <2>3. Unsent' = Tail(Ids(out[w]))
    BY <1>6, <1>7, <2>1, <2>2
  <2>4. Ids(records') = Append(Ids(records), h)
    BY Zenon, <1>1, <1>2, <1>5, <1>6, IdsAppend
  <2> QED BY <1>3, <2>3, <2>4 DEF Line
<1>12. Line' = Line
  <2> HIDE DEF a
  <2>1. a \o Append(Ids(records), h) = Append(a \o Ids(records), h)
    BY <1>8, <1>9, AppendLast
  <2>2. a \o Ids(records) \in Seq(Id)
    BY <1>8, ConcatProperties
  <2>3. Append(a \o Ids(records), h) \o Tail(Ids(out[w])) = (a \o Ids(records)) \o Ids(out[w])
    BY ZenonT(40), <1>6, <1>8, <2>2, Move
  <2> QED BY Zenon, <1>10, <1>11, <2>1, <2>3
<1>13. Lines'
  BY <1>1, <1>3, <1>12 DEF Lines
<1>14. Turns' /\ Waiting(waiting, pc)'
  BY <1>1, <1>3 DEF Turns
<1>15. Inboxes'
  BY SMTT(30), <1>1, <1>3 DEF Inboxes
<1>16. Updates'
  <2>1. \A v \in Workers : pc'[v] # "send" => out'[v] = <<>>
    BY <1>2, <1>3, <1>7
  <2> QED BY <1>1, <1>3, <2>1 DEF Updates
<1>17. Types'
  <2>1. records' \in Seq(Record)
    BY <1>1, <1>2, <1>6, AppendProperties
  <2> QED BY Zenon, <1>1, <1>3, <1>7, <2>1 DEF Types
<1> QED BY <1>13, <1>14, <1>15, <1>16, <1>17 DEF IInv, Lines

\* The turn passes on when all records of the worker have been sent.
LEMMA DropGuardStep ==
  ASSUME IInv, NEW w \in Workers, DropGuard(w)
  PROVE  IInv'
<1>1. /\ Types /\ Turns /\ Inboxes /\ Updates /\ Waiting(waiting, pc)
      /\ pc \in [Workers -> PCs] /\ task \in [Workers -> [index : Int, size : Nat]]
      /\ waiting \in Seq(Workers) /\ current_turn \in Nat /\ index \in Nat
  BY Zenon DEF IInv, Types
<1>2. /\ pc[w] = "send" /\ out[w] = <<>> /\ task[w].index = current_turn
      /\ current_turn' = current_turn + 1 /\ task' = [task EXCEPT ![w] = NoTask]
  BY <1>1 DEF DropGuard, Turns
<1>3. UNCHANGED <<status, index, queue, inbox, held, out, available, waiting, wakers, state,
                  records, proving, shard_proofs, result>>
  BY Zenon DEF DropGuard, mainVars, memVars, proverVars
<1>4. Lines'
  BY <1>3, LinesKept DEF IInv, Lines
<1>5. /\ pc' \in [Workers -> PCs] /\ pc'[w] = "recv"
      /\ \A v \in Workers : v # w => pc'[v] = pc[v] \/ (pc[v] = "parked" /\ pc'[v] = "turn")
  <2>1. pc' = [v \in Workers |->
                 IF v = w THEN "recv"
                 ELSE IF pc[v] = "parked" /\ task[v].index = current_turn' /\ current_turn' \in wakers
                      THEN "turn" ELSE pc[v]]
    BY DEF DropGuard
  <2> QED BY <1>1, <2>1 DEF PCs
<1>6. \A v \in Workers : v # w => pc[v] \notin {"update", "send"}
  BY <1>1, <1>2, SendsAlone
<1>7. \A v \in Workers : pc'[v] \in Busy => v # w /\ pc[v] \in Busy
  BY <1>5 DEF Busy
<1>8. \A v \in Workers : pc'[v] \notin {"update", "send"}
  BY <1>5, <1>6
<1>9. \A v \in Workers : v # w => task'[v] = task[v]
  BY <1>1, <1>2
<1>10. ASSUME NEW n \in current_turn..(index - 1), n # current_turn
       PROVE  n \in current_turn'..(index' - 1)
  BY <1>1, <1>2, <1>3, <1>10
<1>11. Turns'
  <2>1. current_turn' <= index'
    <3>1. current_turn \in current_turn..(index - 1)
      BY <1>1, <1>2 DEF Turns, Busy
    <3> QED BY <1>1, <1>2, <1>3, <3>1
  <2>2. ASSUME NEW v \in Workers, pc'[v] \in Busy
        PROVE  task'[v].index \in current_turn'..(index' - 1)
    <3>1. v # w /\ pc[v] \in Busy /\ pc[w] \in Busy
      BY SMTT(30), <1>2, <1>7, <2>2 DEF Busy
    <3>2. task[v].index \in current_turn..(index - 1) /\ task[v].index # current_turn
      BY <1>1, <1>2, <3>1 DEF Turns
    <3> QED BY <1>9, <1>10, <3>1, <3>2
  <2>3. ASSUME NEW v \in Workers, NEW u \in Workers, v # u, pc'[v] \in Busy, pc'[u] \in Busy
        PROVE  task'[v].index # task'[u].index
    <3>1. pc[v] \in Busy /\ pc[u] \in Busy /\ task'[v] = task[v] /\ task'[u] = task[u]
      BY ZenonT(40), <1>7, <1>9, <2>3
    <3>2. task[v].index # task[u].index
      BY SMTT(30), <1>1, <2>3, <3>1 DEF Turns
    <3> QED BY <3>1, <3>2
  <2> QED BY <1>8, <2>1, <2>2, <2>3 DEF Turns
<1>12. Inboxes'
  <2>1. ASSUME NEW v \in Workers, NEW i \in 1..Len(inbox[v])
        PROVE  inbox[v][i].index \in current_turn'..(index' - 1)
    <3>1. inbox[v][i].index \in current_turn..(index - 1)
      BY SMTT(30), <1>1 DEF Inboxes
    <3>2. inbox[v][i].index # current_turn
      BY SMTT(30), <1>1, <1>2 DEF Inboxes, Busy
    <3> QED BY SMTT(30), <1>10, <3>1, <3>2
  <2>2. ASSUME NEW u \in Workers, NEW v \in Workers, NEW i \in 1..Len(inbox[v]), pc'[u] \in Busy
        PROVE  inbox[v][i].index # task'[u].index
    <3>1. pc[u] \in Busy /\ task'[u] = task[u]
      BY ZenonT(40), <1>7, <1>9, <2>2
    <3>2. inbox[v][i].index # task[u].index
      BY SMTT(30), <1>1, <3>1 DEF Inboxes
    <3> QED BY <3>1, <3>2
  <2>3. \A u, v \in Workers : \A i \in 1..Len(inbox[u]), j \in 1..Len(inbox[v]) :
          u # v \/ i # j => inbox[u][i].index # inbox[v][j].index
    BY SMTT(30), <1>1 DEF Inboxes
  <2>4. inbox' = inbox
    BY <1>3
  <2> QED BY <2>1, <2>2, <2>3, <2>4 DEF Inboxes
<1>13. Updates'
  <2>1. Len(state) = current_turn + 1
    <3>1. (IF \E v \in Workers : pc[v] = "send" THEN 1 ELSE 0) = 1
      BY SMTT(30), <1>2
    <3> QED BY SMTT(30), <1>1, <3>1 DEF Updates
  <2>2. \A v \in Workers : out'[v] = <<>>
    BY Zenon, <1>1, <1>2, <1>3, <1>6 DEF Updates
  <2> DEFINE k == IF \E v \in Workers : pc'[v] = "send" THEN 1 ELSE 0
  <2>3. k = 0
    BY <1>8
  <2> HIDE DEF k
  <2>4. Len(state') = current_turn' + k
    BY <1>1, <1>2, <1>3, <2>1, <2>3
  <2> QED BY ZenonT(40), <1>1, <1>3, <2>2, <2>4 DEF Updates, k
<1>14. Waiting(waiting', pc')
  <2>1. \A v \in Workers : pc[v] = "waiting" => pc'[v] = "waiting"
    BY <1>2, <1>5
  <2> QED BY <1>1, <1>3, <2>1, WaitingKept
<1>15. Types'
  <2>1. task' \in [Workers -> [index : Int, size : Nat]]
    <3>1. NoTask \in [index : Int, size : Nat]
      BY DEF NoTask
    <3> QED BY <1>1, <1>2, <3>1
  <2>2. current_turn' \in Nat
    BY <1>1, <1>2
  <2> QED BY Zenon, <1>1, <1>3, <1>5, <2>1, <2>2 DEF Types
<1> QED BY <1>4, <1>11, <1>12, <1>13, <1>14, <1>15 DEF IInv, Lines

\* The steps of the task that proves: only the line of records is disturbed.
Workings == Waiting(waiting, pc) /\ Turns /\ Inboxes /\ Updates

\* What holds of the workers is kept by a step that none of them takes.
LEMMA WorkingsKept ==
  ASSUME Workings,
         UNCHANGED <<index, inbox, pc, task, out, waiting, current_turn, state>>
  PROVE  Workings'
<1>1. Turns'
  BY Zenon DEF Workings, Turns
<1>2. Inboxes'
  BY DEF Workings, Inboxes
<1>3. Updates'
  BY DEF Workings, Updates
<1> QED BY SMTT(30), <1>1, <1>2, <1>3 DEF Workings

\* A record goes from the channel to the end of prove_shard_task.
LEMMA RecvRecordStep ==
  ASSUME IInv, RecvRecord
  PROVE  IInv'
<1>1. /\ Types /\ Workings /\ Lines /\ records \in Seq(Record) /\ proving \in Seq(ShardProof)
      /\ shard_proofs \in Seq(Id)
  BY SMTT(30) DEF IInv, Types, Lines, Workings
<1> DEFINE p == [id |-> Head(records).id, permit |-> Head(records).permit, ready |-> FALSE]
<1>2. records # <<>> /\ proving' = Append(proving, p) /\ records' = Tail(records)
  BY DEF RecvRecord
<1>3. UNCHANGED <<status, index, queue, inbox, pc, task, held, out, available, waiting,
                  current_turn, wakers, state, shard_proofs, result>>
  BY DEF RecvRecord, mainVars, memVars, turnVars
<1>4. (\A x \in Record : x.id \in Id) /\ (\A x \in ShardProof : x.id \in Id)
  BY DEF Record, ShardProof
<1>5. /\ Ids(records) # <<>> /\ Head(records) \in Record /\ Head(Ids(records)) = Head(records).id
      /\ Tail(records) \in Seq(Record) /\ Ids(Tail(records)) = Tail(Ids(records))
  BY SMTT(30), <1>1, <1>2, <1>4, IdsTail
<1>6. p \in ShardProof /\ p.id = Head(Ids(records))
  BY <1>5 DEF Record, ShardProof
<1> HIDE DEF p
<1> DEFINE h == Head(Ids(records))
           a == shard_proofs \o Ids(proving)
<1>7. Ids(records) \in Seq(Id) /\ Ids(proving) \in Seq(Id)
  BY SMTT(30), <1>1, <1>4, IdsOf
<1>8. a \in Seq(Id) /\ h \in Id
  BY <1>1, <1>5, <1>7, ConcatProperties, HeadTailProperties
<1>9. Ids(proving') = Append(Ids(proving), h)
  BY SMTT(30), <1>1, <1>2, <1>4, <1>6, IdsAppend
<1>10. Line' = (shard_proofs \o Append(Ids(proving), h)) \o Tail(Ids(records)) \o Unsent
  <2>1. Unsent' = Unsent
    BY <1>3 DEF Unsent
  <2> QED BY Zenon, <1>2, <1>3, <1>5, <1>9, <2>1 DEF Line
<1>11. Line' = Line
  <2>1. shard_proofs \o Append(Ids(proving), h) = Append(a, h)
    BY <1>1, <1>7, <1>8, AppendLast
  <2>2. Line = (a \o Ids(records)) \o Unsent
    BY DEF Line
  <2> HIDE DEF a
  <2>3. Append(a, h) \o Tail(Ids(records)) = a \o Ids(records)
    BY SMTT(30), <1>5, <1>7, <1>8, Move
  <2> QED BY Zenon, <1>10, <2>1, <2>2, <2>3
<1>12. Lines'
  BY <1>1, <1>3, <1>11 DEF Lines
<1>13. Workings'
  BY <1>1, <1>3, WorkingsKept
<1>14. Types'
  <2>1. records' \in Seq(Record)
    BY <1>2, <1>5
  <2>2. proving' \in Seq(ShardProof)
    BY <1>1, <1>2, <1>6, AppendProperties
  <2> QED BY Zenon, <1>1, <1>3, <2>1, <2>2 DEF Types
<1> QED BY <1>12, <1>13, <1>14 DEF IInv, Lines, Workings

\* A proof that is ready stays in its place.
LEMMA ProveShardStep ==
  ASSUME IInv, NEW i \in DOMAIN proving, ProveShard(i)
  PROVE  IInv'
<1>1. Types /\ Workings /\ Lines /\ proving \in Seq(ShardProof)
  BY Zenon DEF IInv, Types, Lines, Workings
<1>2. proving' = [proving EXCEPT ![i] = [proving[i] EXCEPT !.ready = TRUE, !.permit = 0]]
  BY Zenon DEF ProveShard
<1>3. UNCHANGED <<status, index, queue, inbox, pc, task, held, out, waiting, current_turn, wakers,
                  state, records, shard_proofs, result>>
  BY DEF ProveShard, mainVars, turnVars
<1>4. DOMAIN proving = 1..Len(proving) /\ Len(proving) \in Nat /\ proving[i] \in ShardProof
  BY SMTT(30), <1>1, LenProperties, ElementOfSeq
<1> DEFINE p == [proving[i] EXCEPT !.ready = TRUE, !.permit = 0]
<1>5. p \in ShardProof /\ p.id = proving[i].id
  <2>1. ASSUME NEW x \in ShardProof
        PROVE  /\ [x EXCEPT !.ready = TRUE, !.permit = 0] \in ShardProof
               /\ [x EXCEPT !.ready = TRUE, !.permit = 0].id = x.id
    <3>1. x \in [id : Id, permit : Int, ready : BOOLEAN]
      BY DEF ShardProof
    <3> DEFINE y == [x EXCEPT !.ready = TRUE]
    <3>2. y \in [id : Id, permit : Int, ready : BOOLEAN] /\ y.id = x.id
      BY Zenon, <3>1
    <3> HIDE DEF y
    <3>3. /\ [y EXCEPT !.permit = 0] \in [id : Id, permit : Int, ready : BOOLEAN]
          /\ [y EXCEPT !.permit = 0].id = y.id
      BY <3>2
    <3> QED BY <3>2, <3>3 DEF ShardProof, y
  <2> QED BY Zenon, <1>4, <2>1
<1> HIDE DEF p
<1>6. proving' = [proving EXCEPT ![i] = p]
  BY <1>2 DEF p
<1>7. proving' \in Seq(ShardProof)
  BY <1>1, <1>4, <1>5, <1>6, ExceptSeq
<1>8. /\ DOMAIN proving' = DOMAIN proving
      /\ \A k \in DOMAIN proving : proving'[k].id = proving[k].id
  BY <1>1, <1>4, <1>5, <1>6
<1>9. Ids(proving') = Ids(proving)
  BY <1>8 DEF Ids
<1>10. Line' = Line
  <2>1. Unsent' = Unsent
    BY <1>3 DEF Unsent
  <2> QED BY <1>3, <1>9, <2>1 DEF Line
<1>11. Lines'
  BY <1>1, <1>3, <1>10 DEF Lines
<1>12. Workings'
  BY <1>1, <1>3, WorkingsKept
<1>13. Types'
  BY Zenon, <1>1, <1>3, <1>7 DEF Types
<1> QED BY <1>11, <1>12, <1>13 DEF IInv, Lines, Workings

\* FuturesOrdered gives the first proof, which goes to the end of shard_proofs.
LEMMA NextProofStep ==
  ASSUME IInv, NextProof
  PROVE  IInv'
<1>1. /\ Types /\ Workings /\ Lines /\ proving \in Seq(ShardProof) /\ shard_proofs \in Seq(Id)
  BY SMTT(30) DEF IInv, Types, Lines, Workings
<1>2. /\ proving # <<>> /\ proving' = Tail(proving)
      /\ shard_proofs' = Append(shard_proofs, Head(proving).id)
  BY DEF NextProof
<1>3. UNCHANGED <<status, index, queue, inbox, pc, task, held, out, available, waiting,
                  current_turn, wakers, state, records, result>>
  BY DEF NextProof, mainVars, memVars, turnVars
<1>4. \A x \in ShardProof : x.id \in Id
  BY DEF ShardProof
<1>5. /\ Ids(proving) # <<>> /\ Head(proving) \in ShardProof /\ Head(Ids(proving)) = Head(proving).id
      /\ Tail(proving) \in Seq(ShardProof) /\ Ids(Tail(proving)) = Tail(Ids(proving))
  BY SMTT(30), <1>1, <1>2, <1>4, IdsTail
<1>6. Ids(proving) \in Seq(Id)
  BY Zenon, <1>1, <1>4, IdsOf
<1>7. shard_proofs' \o Ids(proving') = shard_proofs \o Ids(proving)
  <2>1. shard_proofs' \o Ids(proving') =
          Append(shard_proofs, Head(Ids(proving))) \o Tail(Ids(proving))
    BY Zenon, <1>2, <1>5
  <2> QED BY SMTT(30), <1>1, <1>5, <1>6, <2>1, Move
<1>8. Line' = Line
  <2>1. Unsent' = Unsent
    BY <1>3 DEF Unsent
  <2> QED BY <1>3, <1>7, <2>1 DEF Line
<1>9. Lines'
  BY <1>1, <1>3, <1>8 DEF Lines
<1>10. Workings'
  BY <1>1, <1>3, WorkingsKept
<1>11. Types'
  <2>1. shard_proofs' \in Seq(Id)
    BY <1>1, <1>2, <1>4, <1>5, AppendProperties
  <2> QED BY Zenon, <1>1, <1>2, <1>3, <1>5, <2>1 DEF Types
<1> QED BY <1>9, <1>10, <1>11 DEF IInv, Lines, Workings

\* The ends of execute and of prove_core change no line.
LEMMA EndStep ==
  ASSUME IInv, ExecutionError \/ Return
  PROVE  IInv'
<1>1. Types /\ Workings /\ Lines
  BY DEF IInv, Lines, Workings
<1>2. /\ UNCHANGED <<index, queue, inbox, pc, task, held, out, available, waiting, current_turn,
                     wakers, state, records, proving, shard_proofs>>
      /\ status' \in {"failed", status} /\ result' \in {"error", "ok", result}
  BY DEF ExecutionError, Return, mainVars, memVars, turnVars, proverVars
<1>3. Lines'
  BY <1>1, <1>2, LinesKept
<1>4. Workings'
  BY <1>1, <1>2, WorkingsKept
<1>5. Types'
  BY SMTT(30), <1>1, <1>2 DEF Types
<1> QED BY <1>3, <1>4, <1>5 DEF IInv, Lines, Workings

\* Nothing changes.
LEMMA StutterStep ==
  ASSUME IInv, UNCHANGED vars
  PROVE  IInv'
<1>1. UNCHANGED <<status, index, queue, inbox, pc, task, held, out, available, waiting,
                  current_turn, wakers, state, records, proving, shard_proofs, result>>
  BY DEF vars, mainVars, memVars, turnVars, proverVars
<1>2. Types /\ Workings /\ Lines
  BY DEF IInv, Lines, Workings
<1>3. Lines'
  BY <1>1, <1>2, LinesKept
<1>4. Workings'
  BY <1>1, <1>2, WorkingsKept
<1>5. Types'
  BY SMTT(30), <1>1, <1>2 DEF Types
<1> QED BY <1>3, <1>4, <1>5 DEF IInv, Lines, Workings

\* WorkerQueue::new has every worker.
LEMMA QueueOfWorkers == Init => queue \in Seq(Workers) /\ queue # <<>>
<1> DEFINE n == Cardinality(Workers)
<1>1. n \in Nat /\ n # 0
  BY RecordPipelineAssumption, FS_CardinalityType, FS_EmptySet
<1>2. \E f \in Bijection(1..n, Workers) : TRUE
  <2>1. ExistsBijection(1..n, Workers)
    BY RecordPipelineAssumption, FS_CardinalityType
  <2> QED BY <2>1 DEF ExistsBijection
<1>3. \E f \in [1..n -> Workers] : Range(f) = Workers
  BY Zenon, <1>2 DEF Bijection, Surjection, Range
<1>4. Init => queue \in [1..n -> Workers]
  BY <1>3 DEF Init
<1> HIDE DEF n
<1> QED BY <1>1, <1>4

\* When execute starts there is no checkpoint and no record.
LEMMA InitIInv == Init => IInv
<1> SUFFICES ASSUME Init PROVE IInv
  OBVIOUS
<1>1. Types
  <2>1. queue \in Seq(Workers) /\ queue # <<>>
    BY QueueOfWorkers
  <2>2. task \in [Workers -> [index : Int, size : Nat]]
    BY DEF Init, NoTask
  <2> QED BY <2>1, <2>2 DEF Types, Init, PCs
<1>2. Waiting(waiting, pc)
  BY DEF Init, Waiting
<1>3. Turns /\ Inboxes /\ Updates
  BY DEF Init, Turns, Inboxes, Updates, Busy
<1>4. Line = <<>>
  <2>1. Unsent = UnsentOf(out) /\ UnsentOf(out) = <<>>
    BY NoSender DEF Init, Unsent, UnsentOf
  <2> QED BY <2>1, IdsEmpty DEF Init, Line
<1>5. AllRecords(Line, state) /\ InRange(Line, state)
  BY <1>4 DEF Init, AllRecords, InRange
<1> QED BY <1>1, <1>2, <1>3, <1>5 DEF IInv

-----------------------------------------------------------------------------
(* The theorems. *)

\* Every step of execute, of a worker and of prove_core preserves the invariant.
LEMMA NextIInv == IInv /\ [Next]_vars => IInv'
<1> SUFFICES ASSUME IInv, [Next]_vars PROVE IInv'
  OBVIOUS
<1>1. CASE \E size \in RecordSizes, done \in BOOLEAN, code \in ExitCodes :
             SendTask(size, done, code)
  BY <1>1, SendTaskStep
<1>2. CASE ExecutionError \/ Return
  BY <1>2, EndStep
<1>3. ASSUME NEW w \in Workers, Worker(w)
      PROVE  IInv'
  <2>1. CASE Recv(w)
    BY <2>1, RecvStep
  <2>2. CASE Acquire(w)
    BY <2>2, AcquireStep
  <2>3. CASE Grant(w)
    BY <2>3, GrantStep
  <2>4. CASE Trace(w)
    BY <2>4, TraceStep
  <2>5. CASE Poll(w)
    BY <2>5, PollStep
  <2>6. CASE \E deferred \in 0..MaxDeferred : Update(w, deferred)
    BY <2>6, UpdateStep
  <2>7. CASE Send(w)
    BY <2>7, SendStep
  <2>8. CASE DropGuard(w)
    BY <2>8, DropGuardStep
  <2>9. CASE Stop(w)
    BY <2>9, StopStep
  <2> QED BY SMTT(30), <1>3, <2>1, <2>2, <2>3, <2>4, <2>5, <2>6, <2>7, <2>8, <2>9 DEF Worker
<1>4. CASE RecvRecord
  BY <1>4, RecvRecordStep
<1>5. CASE Proving
  BY <1>5, ProveShardStep DEF Proving
<1>6. CASE NextProof
  BY <1>6, NextProofStep
<1>7. CASE UNCHANGED vars
  BY <1>7, StutterStep
<1> QED BY <1>1, <1>2, <1>3, <1>4, <1>5, <1>6, <1>7 DEF Next, Execute

\* The invariant holds of every interleaving of execute, workers and prove_core.
LEMMA Invariance == Spec => []IInv
<1> QED BY InitIInv, NextIInv, PTL DEF Spec

\* For any workers, record sizes and buffer, and however the workers, the semaphore
\* and the proofs interleave: the shared state of execute is updated once for every
\* checkpoint, in order, and the proofs of prove_core come out in the order of the
\* checkpoints, each with its deferred shards, with none missing and none twice.
THEOREM OrderKept == Spec => []ProofsInOrder
<1>1. IInv => ProofsInOrder
  <2> SUFFICES ASSUME IInv PROVE ProofsInOrder
    OBVIOUS
  <2>1. DOMAIN state = 1..Len(state)
    <3>1. state \in Seq(Turn)
      BY DEF IInv, Types
    <3> QED BY <3>1, LenProperties
  <2>2. \A k \in DOMAIN state : state[k].index = k - 1
    BY <2>1 DEF IInv, Updates
  <2> QED BY <2>2 DEF IInv, Line, ProofsInOrder
<1> QED BY <1>1, Invariance, PTL
=============================================================================
