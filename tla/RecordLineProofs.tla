-------------------------- MODULE RecordLineProofs --------------------------
(***************************************************************************)
(* The parts of the inductive invariant of RecordPipeline, and lemmas      *)
(* about its lines: the records on their way from the workers to           *)
(* shard_proofs, and the workers at the semaphore.                         *)
(***************************************************************************)
EXTENDS RecordPipeline, SequenceTheorems, TLAPS

PCs == {"recv", "acquire", "waiting", "trace", "turn", "parked", "update", "send", "stopped",
        "dead"}

\* Between recv and the end of the loop's body: the worker has a task.
Busy == {"acquire", "waiting", "trace", "turn", "parked", "update", "send"}

Task == [index : Nat, size : RecordSizes]

Id == Nat \X Nat

Turn == [index : Nat, deferred : Nat]

Record == [id : Id, permit : Int]

ShardProof == [id : Id, permit : Int, ready : BOOLEAN]

Types ==
  /\ status \in {"running", "returned", "failed"} /\ result \in {"none", "ok", "error"}
  /\ index \in Nat /\ current_turn \in Nat
  /\ queue \in Seq(Workers) /\ queue # <<>>
  /\ waiting \in Seq(Workers)
  /\ pc \in [Workers -> PCs]
  /\ inbox \in [Workers -> Seq(Task)]
  /\ task \in [Workers -> [index : Int, size : Nat]]
  /\ held \in [Workers -> Int]
  /\ out \in [Workers -> Seq(Record)]
  /\ state \in Seq(Turn)
  /\ records \in Seq(Record)
  /\ proving \in Seq(ShardProof)
  /\ shard_proofs \in Seq(Id)

\* The line at the semaphore: workers that wait, each once.
Waiting(l, p) ==
  /\ \A i \in 1..Len(l) : p[l[i]] = "waiting"
  /\ \A i, j \in 1..Len(l) : i # j => l[i] # l[j]

\* The checkpoints whose turn has not ended, each in one place.
Turns ==
  /\ current_turn <= index
  /\ \A w \in Workers : pc[w] \in Busy => task[w].index \in current_turn..(index - 1)
  /\ \A w \in Workers : pc[w] \in {"update", "send"} => task[w].index = current_turn
  /\ \A v, w \in Workers :
       v # w /\ pc[v] \in Busy /\ pc[w] \in Busy => task[v].index # task[w].index

Inboxes ==
  /\ \A w \in Workers : \A i \in 1..Len(inbox[w]) :
       inbox[w][i].index \in current_turn..(index - 1)
  /\ \A v, w \in Workers : \A i \in 1..Len(inbox[w]) :
       pc[v] \in Busy => inbox[w][i].index # task[v].index
  /\ \A v, w \in Workers : \A i \in 1..Len(inbox[v]), j \in 1..Len(inbox[w]) :
       v # w \/ i # j => inbox[v][i].index # inbox[w][j].index

\* The state has the turns that have ended and the one whose records are being sent.
Updates ==
  /\ \A w \in Workers : pc[w] # "send" => out[w] = <<>>
  /\ Len(state) = current_turn + IF \E w \in Workers : pc[w] = "send" THEN 1 ELSE 0
  /\ \A k \in 1..Len(state) : state[k].index = k - 1

\* The ids of a line of records are those of turns taken.
InRange(s, turns) ==
  \A i \in 1..Len(s) : s[i][1] < Len(turns) /\ s[i][2] <= turns[s[i][1] + 1].deferred

Line == shard_proofs \o Ids(proving) \o Ids(records) \o Unsent

\* The inductive invariant.
IInv ==
  /\ Types
  /\ Waiting(waiting, pc)
  /\ Turns
  /\ Inboxes
  /\ Updates
  /\ AllRecords(Line, state)
  /\ InRange(Line, state)

-----------------------------------------------------------------------------
(* Sequences. *)

\* The head of a line moves to the end of the line before it.
LEMMA Move ==
  ASSUME NEW S, NEW a \in Seq(S), NEW b \in Seq(S), b # <<>>
  PROVE  Append(a, Head(b)) \o Tail(b) = a \o b
<1>1. Head(b) \in S /\ Tail(b) \in Seq(S)
  BY HeadTailProperties
<1>2. Append(a, Head(b)) = a \o <<Head(b)>> /\ <<Head(b)>> \in Seq(S)
  BY <1>1, AppendIsConcat
<1>3. <<Head(b)>> \o Tail(b) = b
  BY <1>1
<1> QED BY <1>1, <1>2, <1>3, ConcatAssociative

\* What is appended to a part at the end is appended to the whole.
LEMMA AppendLast ==
  ASSUME NEW S, NEW a \in Seq(S), NEW b \in Seq(S), NEW e \in S
  PROVE  a \o Append(b, e) = Append(a \o b, e)
<1>1. Append(b, e) = b \o <<e>> /\ <<e>> \in Seq(S)
  BY AppendIsConcat
<1>2. a \o b \in Seq(S)
  BY ConcatProperties
<1>3. Append(a \o b, e) = (a \o b) \o <<e>>
  BY <1>2, AppendIsConcat
<1> QED BY <1>1, <1>3, ConcatAssociative

\* The ids of records or of proofs.
LEMMA IdsOf ==
  ASSUME NEW R, \A x \in R : x.id \in Id, NEW r \in Seq(R)
  PROVE  /\ Ids(r) \in Seq(Id) /\ Len(Ids(r)) = Len(r)
         /\ \A i \in 1..Len(r) : Ids(r)[i] = r[i].id
<1>1. DOMAIN r = 1..Len(r) /\ Len(r) \in Nat /\ \A i \in 1..Len(r) : r[i] \in R
  BY LenProperties, ElementOfSeq
<1>2. Ids(r) = [i \in 1..Len(r) |-> r[i].id]
  BY <1>1 DEF Ids
<1> QED BY <1>1, <1>2

\* No records have no ids.
LEMMA IdsEmpty == Ids(<<>>) = <<>>
  BY DEF Ids

\* The ids of a channel to which a record is sent.
LEMMA IdsAppend ==
  ASSUME NEW R, \A x \in R : x.id \in Id, NEW r \in Seq(R), NEW e \in R
  PROVE  Ids(Append(r, e)) = Append(Ids(r), e.id)
<1> DEFINE a == Append(r, e)
<1>1. /\ a \in Seq(R) /\ Len(a) = Len(r) + 1 /\ a[Len(r) + 1] = e
      /\ \A i \in 1..Len(r) : a[i] = r[i]
  BY AppendProperties
<1> HIDE DEF a
<1>2. /\ Ids(a) \in Seq(Id) /\ Len(Ids(a)) = Len(a)
      /\ \A i \in 1..Len(a) : Ids(a)[i] = a[i].id
  BY <1>1, IdsOf
<1>3. /\ Ids(r) \in Seq(Id) /\ Len(Ids(r)) = Len(r) /\ Len(r) \in Nat
      /\ \A i \in 1..Len(r) : Ids(r)[i] = r[i].id
  BY IdsOf, LenProperties
<1> DEFINE b == Append(Ids(r), e.id)
<1>4. /\ b \in Seq(Id) /\ Len(b) = Len(r) + 1 /\ b[Len(r) + 1] = e.id
      /\ \A i \in 1..Len(r) : b[i] = Ids(r)[i]
  BY <1>3, AppendProperties
<1> HIDE DEF b
<1>5. \A i \in 1..Len(Ids(a)) : Ids(a)[i] = b[i]
  BY SMTT(30), <1>1, <1>2, <1>3, <1>4
<1>6. Ids(a) = b
  BY <1>1, <1>2, <1>4, <1>5, SeqEqual
<1> QED BY <1>6 DEF a, b

\* The ids of a channel from which a record is received.
LEMMA IdsTail ==
  ASSUME NEW R, \A x \in R : x.id \in Id, NEW r \in Seq(R), r # <<>>
  PROVE  /\ Ids(r) # <<>> /\ Head(r) \in R /\ Head(Ids(r)) = Head(r).id
         /\ Tail(r) \in Seq(R) /\ Ids(Tail(r)) = Tail(Ids(r))
<1>1. /\ Head(r) \in R /\ Head(r) = r[1] /\ Tail(r) \in Seq(R) /\ Len(Tail(r)) = Len(r) - 1
      /\ \A i \in 1..Len(Tail(r)) : Tail(r)[i] = r[i + 1]
  BY HeadTailProperties
<1>2. Len(r) \in Nat \ {0}
  BY EmptySeq
<1>3. /\ Ids(r) \in Seq(Id) /\ Len(Ids(r)) = Len(r)
      /\ \A i \in 1..Len(r) : Ids(r)[i] = r[i].id
  BY IdsOf
<1>4. Ids(r) # <<>> /\ Head(Ids(r)) = Head(r).id
  BY <1>1, <1>2, <1>3
<1> DEFINE t == Tail(r)
           u == Tail(Ids(r))
<1>5. /\ u \in Seq(Id) /\ Len(u) = Len(r) - 1
      /\ \A i \in 1..Len(u) : u[i] = Ids(r)[i + 1]
  BY SMTT(30), <1>3, <1>4, HeadTailProperties
<1>6. /\ Ids(t) \in Seq(Id) /\ Len(Ids(t)) = Len(t)
      /\ \A i \in 1..Len(t) : Ids(t)[i] = t[i].id
  BY Zenon, <1>1, IdsOf
<1>7. \A i \in 1..Len(t) : t[i] = r[i + 1]
  BY <1>1
<1>8. Len(t) = Len(r) - 1
  BY <1>1
<1> HIDE DEF t, u
<1>9. ASSUME NEW i \in 1..Len(Ids(t))
      PROVE  Ids(t)[i] = u[i]
  <2>1. i \in 1..Len(t) /\ i \in 1..Len(u) /\ i + 1 \in 1..Len(r)
    BY <1>2, <1>5, <1>6, <1>8
  <2> QED BY <1>3, <1>5, <1>6, <1>7, <2>1
<1>10. Ids(t) = u
  BY <1>5, <1>6, <1>8, <1>9, SeqEqual
<1> QED BY <1>1, <1>4, <1>10 DEF t, u

-----------------------------------------------------------------------------
(* The line of records. *)

\* A position in the second part of a line, with one after it.
LEMMA Between ==
  ASSUME NEW a \in Nat, NEW b \in Nat, NEW i \in Int, i > a, i <= (a + b) - 1
  PROVE  \E j \in 1..b : j + 1 \in 1..b /\ i = a + j /\ i + 1 = a + (j + 1)
<1>1. i - a \in 1..b /\ (i - a) + 1 \in 1..b /\ i = a + (i - a) /\ i + 1 = a + ((i - a) + 1)
  OBVIOUS
<1> QED BY <1>1

\* A line stays right when a turn adds its records.
LEMMA Extend ==
  ASSUME NEW s \in Seq(Id), NEW turns \in Seq(Turn), AllRecords(s, turns), InRange(s, turns),
         NEW t \in Turn, NEW n \in Seq(Id), Len(n) = t.deferred + 1,
         \A j \in 1..Len(n) : n[j] = <<Len(turns), j - 1>>
  PROVE  /\ AllRecords(s \o n, Append(turns, t))
         /\ InRange(s \o n, Append(turns, t))
<1> DEFINE l == s \o n
           u == Append(turns, t)
<1>1. /\ Len(s) \in Nat /\ Len(turns) \in Nat /\ Len(n) \in Nat /\ Len(n) >= 1
      /\ t.deferred \in Nat
  BY LenProperties DEF Turn
<1>a. /\ l \in Seq(Id) /\ Len(l) = Len(s) + Len(n)
      /\ \A i \in 1..(Len(s) + Len(n)) : l[i] = IF i <= Len(s) THEN s[i] ELSE n[i - Len(s)]
  BY Zenon, ConcatProperties
<1>2. /\ l \in Seq(Id) /\ Len(l) = Len(s) + Len(n)
      /\ \A i \in 1..Len(s) : l[i] = s[i]
  <2>1. ASSUME NEW i \in 1..Len(s)
        PROVE  l[i] = s[i]
    <3>1. i \in 1..(Len(s) + Len(n)) /\ i <= Len(s)
      BY <1>1
    <3> HIDE DEF l
    <3> QED BY <1>a, <3>1
  <2> QED BY <1>a, <2>1
<1>3. ASSUME NEW j \in 1..Len(n)
      PROVE  l[Len(s) + j] = n[j]
  <2>1. /\ Len(s) + j \in 1..(Len(s) + Len(n)) /\ ~(Len(s) + j <= Len(s))
        /\ (Len(s) + j) - Len(s) = j
    BY <1>1
  <2> HIDE DEF l
  <2> QED BY <1>a, <2>1
<1>4. /\ u \in Seq(Turn) /\ Len(u) = Len(turns) + 1 /\ u[Len(turns) + 1] = t
      /\ \A k \in 1..Len(turns) : u[k] = turns[k]
  BY AppendProperties
<1>5. \A i \in 1..Len(s) : s[i][1] \in Nat /\ s[i][2] \in Nat
  BY ElementOfSeq DEF Id
<1> HIDE DEF l, u
<1>6. ASSUME NEW i \in 1..Len(s)
      PROVE  /\ s[i][1] \in Nat /\ s[i][1] < Len(turns)
             /\ u[s[i][1] + 1] = turns[s[i][1] + 1]
  <2>1. s[i][1] \in Nat /\ s[i][1] < Len(turns)
    BY <1>5 DEF InRange
  <2>2. s[i][1] + 1 \in 1..Len(turns)
    BY <1>1, <2>1
  <2> QED BY <1>4, <2>1, <2>2
<1>7. ASSUME NEW j \in 1..Len(n)
      PROVE  l[Len(s) + j] = <<Len(turns), j - 1>>
  BY Zenon, <1>3
<1>8. InRange(l, u)
  <2> SUFFICES ASSUME NEW i \in 1..Len(l)
               PROVE  l[i][1] < Len(u) /\ l[i][2] <= u[l[i][1] + 1].deferred
    BY DEF InRange
  <2>1. CASE i \in 1..Len(s)
    <3>1. l[i] = s[i] /\ s[i][1] < Len(turns) /\ s[i][1] \in Nat
      BY <1>2, <1>6, <2>1
    <3>2. s[i][2] <= turns[s[i][1] + 1].deferred /\ u[s[i][1] + 1] = turns[s[i][1] + 1]
      BY <1>6, <2>1 DEF InRange
    <3> QED BY <1>1, <1>4, <3>1, <3>2
  <2>2. CASE i \notin 1..Len(s)
    <3>1. PICK j \in 1..Len(n) : i = Len(s) + j
      <4>1. i - Len(s) \in 1..Len(n) /\ i = Len(s) + (i - Len(s))
        BY SMTT(30), <1>1, <1>2, <2>2
      <4> QED BY <4>1
    <3>2. l[i] = <<Len(turns), j - 1>>
      BY <1>7, <3>1
    <3>3. l[i][1] = Len(turns) /\ l[i][2] = j - 1
      BY <3>2
    <3>4. j \in Nat /\ j - 1 <= t.deferred
      BY <1>1, <3>1
    <3> QED BY <1>1, <1>4, <3>3, <3>4
  <2> QED BY <2>1, <2>2
<1>9. l # <<>> /\ u # <<>>
  BY SMTT(30), <1>1, <1>2, <1>4, EmptySeq
<1>10. l[1] = <<0, 0>>
  <2>1. CASE s = <<>>
    <3>1. turns = <<>> /\ Len(s) = 0 /\ Len(turns) = 0
      BY <2>1, EmptySeq DEF AllRecords
    <3> QED BY <1>1, <1>3, <3>1
  <2>2. CASE s # <<>>
    <3>1. 1 \in 1..Len(s)
      BY <1>1, <2>2, EmptySeq
    <3> QED BY <1>2, <2>2, <3>1 DEF AllRecords
  <2> QED BY <2>1, <2>2
<1>11. l[Len(l)] = <<Len(u) - 1, u[Len(u)].deferred>>
  <2>1. Len(l) = Len(s) + Len(n) /\ Len(n) \in 1..Len(n)
    BY <1>1, <1>2
  <2>2. l[Len(l)] = <<Len(turns), Len(n) - 1>>
    BY Zenon, <1>3, <2>1
  <2>3. Len(n) - 1 = t.deferred /\ Len(turns) = Len(u) - 1 /\ u[Len(u)] = t
    BY <1>1, <1>4
  <2> QED BY <2>2, <2>3
<1>12. ASSUME NEW i \in 1..(Len(l) - 1)
       PROVE  l[i + 1] = Successor(l[i], u)
  <2>1. CASE i + 1 <= Len(s)
    <3>1. i \in 1..(Len(s) - 1) /\ i \in 1..Len(s) /\ i + 1 \in 1..Len(s)
      BY <1>1, <2>1
    <3>2. s[i + 1] = Successor(s[i], turns)
      BY <3>1 DEF AllRecords
    <3>3. Successor(s[i], u) = Successor(s[i], turns)
      BY <1>6, <3>1 DEF Successor
    <3> QED BY SMTT(30), <1>2, <3>1, <3>2, <3>3
  <2>2. CASE i = Len(s)
    <3>1. s # <<>> /\ i \in 1..Len(s)
      BY <1>1, <2>2, EmptySeq
    <3>2. turns # <<>> /\ s[i] = <<Len(turns) - 1, turns[Len(turns)].deferred>>
      BY <2>2, <3>1 DEF AllRecords
    <3>3. Len(turns) >= 1 /\ Len(turns) \in 1..Len(turns)
      BY <1>1, <3>2, EmptySeq
    <3>4. turns[Len(turns)].deferred \in Nat
      <4>1. turns[Len(turns)] \in Turn
        BY <3>3, ElementOfSeq
      <4> QED BY <4>1 DEF Turn
    <3>5. s[i][1] + 1 = Len(turns) /\ s[i][2] = turns[Len(turns)].deferred
      BY <1>1, <3>2
    <3>6. u[s[i][1] + 1].deferred = s[i][2]
      BY SMTT(30), <1>6, <3>1, <3>5
    <3>7. Successor(s[i], u) = <<Len(turns), 0>>
      BY <3>4, <3>5, <3>6 DEF Successor
    <3>8. l[i + 1] = <<Len(turns), 0>>
      <4>1. 1 \in 1..Len(n) /\ 1 - 1 = 0
        BY <1>1
      <4> QED BY <1>7, <2>2, <4>1
    <3> QED BY SMTT(30), <1>2, <3>1, <3>7, <3>8
  <2>3. CASE i > Len(s)
    <3>1. PICK j \in 1..Len(n) :
            j + 1 \in 1..Len(n) /\ i = Len(s) + j /\ i + 1 = Len(s) + (j + 1)
      <4>1. i \in Int /\ i <= (Len(s) + Len(n)) - 1
        BY <1>1, <1>2
      <4> QED BY Zenon, <1>1, <2>3, <4>1, Between
    <3>2. l[i] = <<Len(turns), j - 1>> /\ l[i + 1] = <<Len(turns), (j + 1) - 1>>
      BY SMTT(30), <1>7, <3>1
    <3>3. j \in Nat /\ j - 1 < t.deferred /\ (j + 1) - 1 = (j - 1) + 1
      BY SMTT(30), <1>1, <3>1
    <3>4. Successor(l[i], u) = <<Len(turns), (j - 1) + 1>>
      BY SMTT(30), <1>4, <3>2, <3>3 DEF Successor
    <3> QED BY <3>2, <3>3, <3>4
  <2> QED BY <1>1, <1>2, <2>1, <2>2, <2>3
<1>13. AllRecords(l, u)
  BY <1>9, <1>10, <1>11, <1>12 DEF AllRecords
<1> QED BY <1>8, <1>13 DEF l, u

\* What `Unsent` is when one worker at most has records to send.
UnsentOf(f) ==
  LET S == {w \in Workers : f[w] # <<>>} IN
  IF S = {} THEN <<>> ELSE Ids(f[CHOOSE w \in S : TRUE])

\* If only w has records to send, they are what is unsent.
LEMMA OneSender ==
  ASSUME NEW f, NEW w \in Workers, \A v \in Workers : v # w => f[v] = <<>>
  PROVE  UnsentOf(f) = Ids(f[w])
<1> DEFINE S == {v \in Workers : f[v] # <<>>}
<1>1. CASE f[w] = <<>>
  <2>1. S = {}
    BY <1>1
  <2> QED BY <1>1, <2>1, IdsEmpty DEF UnsentOf
<1>2. CASE f[w] # <<>>
  <2>1. S = {w}
    BY <1>2
  <2>2. S # {} /\ (CHOOSE v \in S : TRUE) = w
    BY <2>1
  <2> QED BY <2>2 DEF UnsentOf
<1> QED BY <1>1, <1>2

\* If no worker has records to send, nothing is unsent.
LEMMA NoSender ==
  ASSUME NEW f, \A v \in Workers : f[v] = <<>>
  PROVE  UnsentOf(f) = <<>>
  BY DEF UnsentOf

\* The worker that sends is alone: it has the current turn.
LEMMA SendsAlone ==
  ASSUME Types, Turns, Updates, NEW w \in Workers, pc[w] \in {"update", "send"}
  PROVE  \A v \in Workers : v # w => pc[v] \notin {"update", "send"} /\ out[v] = <<>>
<1> SUFFICES ASSUME NEW v \in Workers, v # w
             PROVE  pc[v] \notin {"update", "send"} /\ out[v] = <<>>
  OBVIOUS
<1>1. ASSUME pc[v] \in {"update", "send"}
      PROVE  FALSE
  <2>1. task[v].index = current_turn /\ task[w].index = current_turn
    BY <1>1 DEF Turns
  <2>2. pc[v] \in Busy /\ pc[w] \in Busy
    BY <1>1 DEF Busy
  <2> QED BY <2>1, <2>2 DEF Turns
<1> QED BY <1>1 DEF Updates

-----------------------------------------------------------------------------
(* The line at the semaphore. *)

\* The line at the semaphore is right as long as its workers wait.
LEMMA WaitingKept ==
  ASSUME NEW l \in Seq(Workers), NEW p, NEW q, Waiting(l, p),
         \A v \in Workers : p[v] = "waiting" => q[v] = "waiting"
  PROVE  Waiting(l, q)
<1>1. \A i \in 1..Len(l) : l[i] \in Workers
  BY ElementOfSeq
<1> QED BY <1>1 DEF Waiting

\* A worker that waits for a permit joins the line at its end.
LEMMA WaitingAppend ==
  ASSUME NEW l \in Seq(Workers), NEW p, NEW q, Waiting(l, p), NEW w \in Workers,
         p[w] # "waiting", q[w] = "waiting",
         \A v \in Workers : p[v] = "waiting" => q[v] = "waiting"
  PROVE  Waiting(Append(l, w), q)
<1> DEFINE a == Append(l, w)
<1>1. /\ Len(l) \in Nat /\ Len(a) = Len(l) + 1 /\ a[Len(l) + 1] = w
      /\ \A i \in 1..Len(l) : a[i] = l[i]
  BY AppendProperties, LenProperties
<1>2. \A i \in 1..Len(l) : l[i] \in Workers
  BY ElementOfSeq
<1> HIDE DEF a
<1>3. \A i \in 1..Len(a) : i \in 1..Len(l) \/ i = Len(l) + 1
  BY <1>1
<1>4. \A i \in 1..Len(l) : l[i] # w /\ q[l[i]] = "waiting"
  BY <1>2 DEF Waiting
<1>5. ASSUME NEW i \in 1..Len(a)
      PROVE  q[a[i]] = "waiting"
  BY <1>1, <1>3, <1>4
<1>6. ASSUME NEW i \in 1..Len(a), NEW j \in 1..Len(a), i # j
      PROVE  a[i] # a[j]
  <2>1. CASE i \in 1..Len(l) /\ j \in 1..Len(l)
    BY <1>1, <1>6, <2>1 DEF Waiting
  <2>2. CASE i = Len(l) + 1
    <3>1. j \in 1..Len(l)
      BY <1>3, <1>6, <2>2
    <3> QED BY <1>1, <1>4, <2>2, <3>1
  <2>3. CASE j = Len(l) + 1
    <3>1. i \in 1..Len(l)
      BY <1>3, <1>6, <2>3
    <3> QED BY <1>1, <1>4, <2>3, <3>1
  <2> QED BY <1>3, <2>1, <2>2, <2>3
<1>7. Waiting(a, q)
  BY <1>5, <1>6 DEF Waiting
<1> QED BY <1>7 DEF a

\* The worker that the semaphore serves leaves the line.
LEMMA WaitingTail ==
  ASSUME NEW l \in Seq(Workers), l # <<>>, NEW p, NEW q, Waiting(l, p),
         \A v \in Workers : v # Head(l) /\ p[v] = "waiting" => q[v] = "waiting"
  PROVE  Waiting(Tail(l), q)
<1> DEFINE t == Tail(l)
<1>1. /\ Head(l) = l[1] /\ t \in Seq(Workers) /\ Len(t) = Len(l) - 1
      /\ \A i \in 1..Len(t) : t[i] = l[i + 1]
  BY HeadTailProperties
<1>2. Len(l) \in Nat \ {0}
  BY EmptySeq
<1>3. \A i \in 1..Len(l) : l[i] \in Workers
  BY ElementOfSeq
<1> HIDE DEF t
<1>4. ASSUME NEW i \in 1..Len(t)
      PROVE  i + 1 \in 1..Len(l) /\ i + 1 # 1 /\ 1 \in 1..Len(l)
  BY <1>1, <1>2
<1>5. ASSUME NEW i \in 1..Len(t)
      PROVE  q[t[i]] = "waiting"
  <2>1. t[i] = l[i + 1] /\ l[i + 1] # Head(l)
    BY <1>1, <1>4 DEF Waiting
  <2>2. l[i + 1] \in Workers /\ p[l[i + 1]] = "waiting"
    BY <1>3, <1>4 DEF Waiting
  <2> QED BY <2>1, <2>2
<1>6. ASSUME NEW i \in 1..Len(t), NEW j \in 1..Len(t), i # j
      PROVE  t[i] # t[j]
  <2>1. i + 1 # j + 1
    BY <1>2, <1>1, <1>6
  <2> QED BY <1>1, <1>4, <2>1 DEF Waiting
<1>7. Waiting(t, q)
  BY <1>5, <1>6 DEF Waiting
<1> QED BY <1>7 DEF t
=============================================================================
