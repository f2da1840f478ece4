-------------------------- MODULE WorkerQueueProofs --------------------------
(***************************************************************************)
(* Theorems about WorkerQueue, for every finite set of workers and of      *)
(* callers.                                                                *)
(*                                                                         *)
(* The semaphore and the queue are two objects that no lock ties together. *)
(* The invariant counts: the workers in the queue are as many as the       *)
(* permits that are free, granted, about to pop or about to be released.   *)
(* It needs the order of the waiting callers only to know that a permit    *)
(* goes to a caller that is not counted yet.                               *)
(***************************************************************************)
EXTENDS WorkerQueue, FiniteSetTheorems, TLAPS

\* Callers that own a permit but no worker.
Owed == {c \in Callers : pc[c] \in {"granted", "popping", "dropping"}}

Holders == {c \in Callers : worker[c] # NoWorker}

\* A worker in the queue for every permit without one.
Balance == Len(queue) = permits + Cardinality(Owed)

GuardsWork == \A c \in Callers : worker[c] # NoWorker <=> pc[c] = "working"

Line(w, p) ==
  /\ \A i \in 1..Len(w) : p[w[i]] = "waiting"
  /\ \A i, j \in 1..Len(w) : i # j => w[i] # w[j]

\* The inductive invariant.
IInv ==
  /\ TypeOK
  /\ ~panicked
  /\ Balance
  /\ GuardsWork
  /\ Line(waiters, pc)
  /\ WorkersConserved

-----------------------------------------------------------------------------
\* What is left of a line without its head.
LEMMA TailLine ==
  ASSUME NEW w \in Seq(Callers), w # <<>>, NEW p, Line(w, p)
  PROVE  /\ Head(w) \in Callers /\ p[Head(w)] = "waiting"
         /\ Tail(w) \in Seq(Callers)
         /\ Line(Tail(w), p)
         /\ \A i \in 1..Len(Tail(w)) : Tail(w)[i] # Head(w)
<1>1. Len(w) \in Nat /\ Len(w) >= 1 /\ Len(Tail(w)) = Len(w) - 1
  OBVIOUS
<1>2. Head(w) = w[1] /\ Head(w) \in Callers /\ Tail(w) \in Seq(Callers)
  OBVIOUS
<1>3. \A i \in 1..Len(Tail(w)) : Tail(w)[i] = w[i + 1] /\ i + 1 \in 1..Len(w)
  BY <1>1
<1> QED BY <1>1, <1>2, <1>3 DEF Line

\* What is left of a line without the caller in place i.
LEMMA RemoveLine ==
  ASSUME NEW w \in Seq(Callers), NEW i \in 1..Len(w), NEW p, Line(w, p)
  PROVE  /\ RemoveAt(w, i) \in Seq(Callers)
         /\ Line(RemoveAt(w, i), p)
         /\ \A j \in 1..Len(RemoveAt(w, i)) : RemoveAt(w, i)[j] # w[i]
<1> DEFINE a == SubSeq(w, 1, i - 1)
           b == SubSeq(w, i + 1, Len(w))
           r == a \o b
<1>1. Len(w) \in Nat /\ i \in Nat /\ i >= 1 /\ i <= Len(w)
  OBVIOUS
<1>2. a \in Seq(Callers) /\ Len(a) = i - 1 /\ \A j \in 1..(i - 1) : a[j] = w[j]
  BY <1>1
<1>3. b \in Seq(Callers) /\ Len(b) = Len(w) - i
  BY <1>1
<1>4. \A j \in 1..(Len(w) - i) : b[j] = w[i + j]
  BY <1>1, <1>3
<1> HIDE DEF a, b
<1>5. r \in Seq(Callers) /\ Len(r) = Len(w) - 1
  <2>1. r \in Seq(Callers) /\ Len(r) = Len(a) + Len(b)
    BY SMTT(30), <1>2, <1>3
  <2> QED BY <1>1, <1>2, <1>3, <2>1
<1>6. \A j \in 1..Len(r) : r[j] = w[IF j < i THEN j ELSE j + 1]
  <2> SUFFICES ASSUME NEW j \in 1..Len(r)
               PROVE  r[j] = w[IF j < i THEN j ELSE j + 1]
    OBVIOUS
  <2>1. CASE j < i
    BY <1>1, <1>2, <1>3, <1>5, <2>1
  <2>2. CASE j >= i
    <3>1. r[j] = b[j - (i - 1)] /\ j - (i - 1) \in 1..(Len(w) - i)
      BY <1>1, <1>2, <1>3, <1>5, <2>2
    <3> QED BY <1>1, <1>4, <1>5, <2>2, <3>1
  <2> QED BY <1>1, <1>5, <2>1, <2>2
<1> HIDE DEF r
<1> DEFINE at(j) == IF j < i THEN j ELSE j + 1
<1>a. \A j \in 1..Len(r) : at(j) \in 1..Len(w) /\ at(j) # i /\ r[j] = w[at(j)]
  BY <1>1, <1>5, <1>6
<1>b. \A j, k \in 1..Len(r) : j # k => at(j) # at(k)
  BY <1>1, <1>5
<1> HIDE DEF at
<1>7. Line(r, p) /\ \A j \in 1..Len(r) : r[j] # w[i]
  <2>1. \A j \in 1..Len(r) : p[r[j]] = "waiting"
    BY <1>a DEF Line
  <2>2. ASSUME NEW j \in 1..Len(r), NEW k \in 1..Len(r), j # k
        PROVE  r[j] # r[k]
    <3>1. /\ at(j) \in 1..Len(w) /\ r[j] = w[at(j)]
          /\ at(k) \in 1..Len(w) /\ r[k] = w[at(k)]
      BY <1>a
    <3>2. at(j) # at(k)
      BY <1>b, <2>2
    <3> QED BY <3>1, <3>2 DEF Line
  <2>3. ASSUME NEW j \in 1..Len(r)
        PROVE  r[j] # w[i]
    <3>1. at(j) \in 1..Len(w) /\ at(j) # i /\ r[j] = w[at(j)]
      BY <1>a
    <3> QED BY <3>1 DEF Line
  <2> QED BY <2>1, <2>2, <2>3 DEF Line
<1>8. RemoveAt(w, i) = r
  BY DEF RemoveAt, r, a, b
<1> QED BY <1>5, <1>7, <1>8

\* A line keeps waiting while others change.
LEMMA LineKept ==
  ASSUME NEW w \in Seq(Callers), NEW p, NEW q, Line(w, p),
         \A i \in 1..Len(w) : q[w[i]] = p[w[i]]
  PROVE  Line(w, q)
BY DEF Line

\* The sets of callers the invariant counts are finite.
LEMMA Counted ==
  /\ IsFiniteSet(Owed) /\ Cardinality(Owed) \in Nat
  /\ IsFiniteSet(Holders) /\ Cardinality(Holders) \in Nat
  /\ Cardinality(Workers) \in Nat
<1>1. Owed \in SUBSET Callers /\ Holders \in SUBSET Callers
  BY DEF Owed, Holders
<1> QED BY <1>1, CallersAssumption, WorkersAssumption, FS_Subset, FS_CardinalityType

\* WorkersConserved by the name of its set.
LEMMA Conserved ==
  WorkersConserved <=>
    /\ Workers = ToSet(queue) \cup {worker[c] : c \in Holders}
    /\ Len(queue) + Cardinality(Holders) = Cardinality(Workers)
BY DEF WorkersConserved, Holders

-----------------------------------------------------------------------------
(* Steps. *)

\* WorkerQueue::new puts every worker in the queue.
LEMMA InitIInv == Init => IInv
<1> SUFFICES ASSUME Init PROVE IInv
  OBVIOUS
<1> DEFINE n == Cardinality(Workers)
<1>1. n \in Nat
  BY Counted
<1>2. /\ queue \in [1..n -> Workers]
      /\ \A i, j \in 1..n : i # j => queue[i] # queue[j]
  BY DEF Init, SetToSeqs
<1>3. queue \in Seq(Workers) /\ Len(queue) = n /\ DOMAIN queue = 1..n
  BY <1>1, <1>2
<1>4. ToSet(queue) = Workers
  <2>1. queue \in Injection(1..n, Workers)
    BY <1>2 DEF Injection, IsInjective
  <2>2. Cardinality(1..n) = n /\ IsFiniteSet(1..n)
    BY <1>1, FS_Interval
  <2>3. queue \in Surjection(1..n, Workers)
    BY <2>1, <2>2, WorkersAssumption, FS_Injection
  <2> QED BY <1>3, <2>3 DEF Surjection, ToSet
<1>5. Owed = {} /\ Holders = {}
  BY DEF Init, Owed, Holders
<1>6. TypeOK /\ ~panicked /\ GuardsWork /\ Line(waiters, pc)
  <2>1. waiters \in Seq(Callers) /\ Len(waiters) = 0
    BY DEF Init
  <2>2. TypeOK /\ ~panicked
    BY Zenon, <1>1, <1>3, <2>1 DEF Init, TypeOK, States
  <2>3. GuardsWork
    BY DEF Init, GuardsWork
  <2>4. Line(waiters, pc)
    BY <2>1 DEF Line
  <2> QED BY <2>2, <2>3, <2>4
<1>7. Balance
  BY <1>1, <1>3, <1>5, FS_EmptySet DEF Init, Balance
<1>8. WorkersConserved
  BY SMTT(30), <1>1, <1>3, <1>4, <1>5, FS_EmptySet, Conserved
<1> QED BY <1>6, <1>7, <1>8 DEF IInv

\* The conservation of workers is about the queue and the guards only.
LEMMA ConservedKept ==
  ASSUME WorkersConserved, queue' = queue, worker' = worker
  PROVE  WorkersConserved'
BY DEF WorkersConserved

\* A released permit goes to the first in line, or is free.
LEMMA ReleaseIInv ==
  ASSUME IInv, NEW c \in Callers, pc[c] \in {"granted", "dropping"}, Release(c, "idle"),
         UNCHANGED <<queue, worker, panicked>>
  PROVE  IInv'
<1> USE DEF IInv
<1>0. c \in Owed
  BY DEF Owed
<1>1. CASE waiters = <<>>
  <2>1. /\ permits' = permits + 1 /\ waiters' = waiters
        /\ pc' = [pc EXCEPT ![c] = "idle"]
    BY <1>1 DEF Release
  <2>2. TypeOK' /\ ~panicked' /\ GuardsWork' /\ Line(waiters, pc)'
    BY <1>1, <2>1 DEF TypeOK, GuardsWork, Line, States
  <2>3. Owed' = Owed \ {c}
    BY <2>1 DEF Owed, TypeOK
  <2>4. Cardinality(Owed') = Cardinality(Owed) - 1
    BY Zenon, <1>0, <2>3, Counted, FS_RemoveElement
  <2>5. Balance'
    BY <2>1, <2>4, Counted DEF Balance, TypeOK
  <2> QED BY <2>2, <2>5, ConservedKept
<1>2. CASE waiters # <<>>
  <2> DEFINE w == Head(waiters)
  <2>1. /\ permits' = permits /\ waiters' = Tail(waiters)
        /\ pc' = [pc EXCEPT ![c] = "idle", ![w] = "granted"]
    BY <1>2 DEF Release
  <2>2. /\ w \in Callers /\ pc[w] = "waiting"
        /\ Tail(waiters) \in Seq(Callers) /\ Line(Tail(waiters), pc)
        /\ \A i \in 1..Len(Tail(waiters)) : Tail(waiters)[i] # w
    BY <1>2, TailLine DEF TypeOK
  <2> HIDE DEF w
  <2>3. w # c
    BY <2>2
  <2>4. TypeOK' /\ ~panicked'
    BY SMTT(30), <2>1, <2>2 DEF TypeOK, States
  <2>5. GuardsWork'
    BY <2>1, <2>2 DEF GuardsWork, TypeOK
  <2>6. Line(waiters, pc)'
    <3>1. \A i \in 1..Len(Tail(waiters)) : Tail(waiters)[i] # c /\ Tail(waiters)[i] \in Callers
      BY <2>2 DEF Line
    <3>2. \A i \in 1..Len(Tail(waiters)) : pc'[Tail(waiters)[i]] = pc[Tail(waiters)[i]]
      BY <2>1, <2>2, <3>1 DEF TypeOK
    <3>3. Line(Tail(waiters), pc')
      BY Zenon, <2>2, <3>2, LineKept
    <3> QED BY <2>1, <3>3
  <2>7. Owed' = (Owed \ {c}) \cup {w}
    BY <2>1, <2>2, <2>3 DEF Owed, TypeOK
  <2>8. w \notin Owed
    BY <2>2 DEF Owed
  <2>9. Cardinality(Owed') = Cardinality(Owed)
    <3>1. /\ IsFiniteSet(Owed \ {c})
          /\ Cardinality(Owed \ {c}) = Cardinality(Owed) - 1
      BY <1>0, Counted, FS_RemoveElement
    <3>2. w \notin Owed \ {c}
      BY <2>8
    <3>3. Cardinality((Owed \ {c}) \cup {w}) = Cardinality(Owed \ {c}) + 1
      BY Zenon, <3>1, <3>2, FS_AddElement
    <3> QED BY SMTT(30), <2>7, <3>1, <3>3, Counted
  <2>10. Balance'
    BY <2>1, <2>9 DEF Balance
  <2> QED BY <2>4, <2>5, <2>6, <2>10, ConservedKept
<1> QED BY <1>1, <1>2

\* A free permit is taken.
LEMMA TakePermitIInv ==
  ASSUME IInv, NEW c \in Callers, pc[c] = "idle", permits > 0, permits' = permits - 1,
         pc' = [pc EXCEPT ![c] = "popping"], UNCHANGED <<queue, waiters, worker, panicked>>
  PROVE  IInv'
<1> USE DEF IInv
<1>1. TypeOK' /\ ~panicked'
  BY DEF TypeOK, States
<1>2. GuardsWork'
  BY DEF GuardsWork, TypeOK
<1>3. \A i \in 1..Len(waiters) : pc'[waiters[i]] = pc[waiters[i]]
  BY DEF Line, TypeOK
<1>4. Line(waiters', pc')
  <2>1. waiters \in Seq(Callers) /\ Line(waiters, pc)
    BY DEF TypeOK
  <2>2. Line(waiters, pc')
    BY <1>3, <2>1 DEF Line
  <2> QED BY <2>2
<1>5. Owed' = Owed \cup {c} /\ c \notin Owed
  BY DEF Owed, TypeOK
<1>6. Cardinality(Owed \cup {c}) = Cardinality(Owed) + 1
  BY Zenon, <1>5, Counted, FS_AddElement
<1>7. Balance'
  BY <1>5, <1>6, Counted DEF Balance, TypeOK
<1> QED BY SMTT(30), <1>1, <1>2, <1>4, <1>7, ConservedKept

\* pop takes a free permit, or its caller joins the line.
LEMMA PopIInv ==
  ASSUME IInv, NEW c \in Callers, Pop(c)
  PROVE  IInv'
<1>1. CASE permits > 0
  BY <1>1, TakePermitIInv DEF Pop
<1>2. CASE ~(permits > 0)
  <2> USE DEF IInv
  <2>1. /\ pc[c] = "idle" /\ pc' = [pc EXCEPT ![c] = "waiting"]
        /\ waiters' = Append(waiters, c)
        /\ UNCHANGED <<permits, queue, worker, panicked>>
    BY <1>2 DEF Pop
  <2>2. waiters \in Seq(Callers) /\ pc \in [Callers -> States]
    BY DEF TypeOK
  <2>3. /\ waiters' \in Seq(Callers) /\ Len(waiters') = Len(waiters) + 1
        /\ \A i \in 1..Len(waiters) : waiters'[i] = waiters[i]
        /\ waiters'[Len(waiters) + 1] = c
    BY <2>1, <2>2
  <2>4. TypeOK' /\ ~panicked'
    BY <2>1, <2>3 DEF TypeOK, States
  <2>5. GuardsWork'
    BY <2>1, <2>2 DEF GuardsWork
  <2>6. Line(waiters, pc)'
    <3>1. Len(waiters) \in Nat /\ \A i \in 1..Len(waiters) : waiters[i] \in Callers
      BY <2>2
    <3>2. \A i \in 1..Len(waiters) : waiters[i] # c
      BY <2>1 DEF Line
    <3>3. \A i \in 1..Len(waiters') : pc'[waiters'[i]] = "waiting"
      BY SMTT(30), <2>1, <2>2, <2>3, <3>1, <3>2 DEF Line
    <3>4. \A i, j \in 1..Len(waiters') : i # j => waiters'[i] # waiters'[j]
      BY SMTT(30), <2>3, <3>1, <3>2 DEF Line
    <3> QED BY <3>3, <3>4 DEF Line
  <2>7. Owed' = Owed
    BY <2>1, <2>2 DEF Owed
  <2>8. Balance'
    BY <2>1, <2>7 DEF Balance
  <2> QED BY SMTT(30), <2>1, <2>4, <2>5, <2>6, <2>8, ConservedKept
<1> QED BY <1>1, <1>2

\* A caller with a permit is polled.
LEMMA WakeIInv ==
  ASSUME IInv, NEW c \in Callers, Wake(c)
  PROVE  IInv'
<1> USE DEF IInv
<1>1. TypeOK' /\ ~panicked'
  BY DEF Wake, TypeOK, States
<1>2. GuardsWork'
  BY DEF Wake, GuardsWork, TypeOK
<1>3. \A i \in 1..Len(waiters) : pc'[waiters[i]] = pc[waiters[i]]
  BY DEF Wake, Line, TypeOK
<1>4. Line(waiters', pc')
  <2>1. waiters \in Seq(Callers)
    BY DEF TypeOK
  <2>2. Line(waiters, pc')
    BY <1>3, <2>1, LineKept
  <2> QED BY <2>2 DEF Wake
<1>5. Owed' = Owed
  BY DEF Wake, Owed, TypeOK
<1>6. Balance'
  BY <1>5 DEF Wake, Balance
<1> QED BY SMTT(30), <1>1, <1>2, <1>4, <1>6, ConservedKept DEF Wake

\* A future of pop that is dropped leaves the line or gives its permit back.
LEMMA CancelIInv ==
  ASSUME IInv, NEW c \in Callers, Cancel(c)
  PROVE  IInv'
<1>1. CASE pc[c] = "granted"
  BY <1>1, ReleaseIInv DEF Cancel
<1>2. CASE pc[c] # "granted"
  <2> USE DEF IInv
  <2>1. /\ pc[c] = "waiting" /\ pc' = [pc EXCEPT ![c] = "idle"]
        /\ UNCHANGED <<permits, queue, worker, panicked>>
    BY <1>2 DEF Cancel
  <2>2. waiters \in Seq(Callers) /\ pc \in [Callers -> States]
    BY DEF TypeOK
  <2>3. PICK i \in 1..Len(waiters) : waiters[i] = c /\ waiters' = RemoveAt(waiters, i)
    BY <1>2, <2>2 DEF Cancel
  <2>4. /\ waiters' \in Seq(Callers) /\ Line(waiters', pc)
        /\ \A j \in 1..Len(waiters') : waiters'[j] # c
    BY <2>2, <2>3, RemoveLine
  <2>5. TypeOK' /\ ~panicked'
    BY <2>1, <2>4 DEF TypeOK, States
  <2>6. GuardsWork'
    BY <2>1, <2>2 DEF GuardsWork
  <2>7. Line(waiters', pc')
    <3>1. \A j \in 1..Len(waiters') : pc'[waiters'[j]] = pc[waiters'[j]]
      BY <2>1, <2>2, <2>4
    <3> QED BY <2>4, <3>1, LineKept
  <2>8. Owed' = Owed
    BY <2>1, <2>2 DEF Owed
  <2>9. Balance'
    BY <2>1, <2>8 DEF Balance
  <2> QED BY SMTT(30), <2>1, <2>5, <2>6, <2>7, <2>9, ConservedKept
<1> QED BY <1>1, <1>2

\* The pop of a caller with a permit finds a worker.
LEMMA TakeWorkerIInv ==
  ASSUME IInv, NEW c \in Callers, TakeWorker(c)
  PROVE  IInv'
<1> USE DEF IInv
<1>0. queue \in Seq(Workers) /\ Len(queue) \in Nat /\ permits \in Nat
  BY DEF TypeOK
<1>1. pc[c] = "popping" /\ c \in Owed /\ worker[c] = NoWorker
  BY DEF TakeWorker, Owed, GuardsWork
<1>2. queue # <<>>
  <2>1. Owed # {}
    BY <1>1
  <2>2. Cardinality(Owed) # 0
    BY <2>1, Counted, FS_EmptySet
  <2> QED BY <1>0, <2>2, Counted DEF Balance
<1>3. /\ queue' = Tail(queue) /\ worker' = [worker EXCEPT ![c] = Head(queue)]
      /\ pc' = [pc EXCEPT ![c] = "working"] /\ UNCHANGED <<permits, waiters, panicked>>
  BY <1>2 DEF TakeWorker
<1>4. /\ Head(queue) \in Workers /\ Tail(queue) \in Seq(Workers)
      /\ Len(Tail(queue)) = Len(queue) - 1
  BY <1>0, <1>2
<1>5. TypeOK' /\ ~panicked'
  BY <1>3, <1>4 DEF TypeOK, States
<1>6. GuardsWork'
  BY <1>3, <1>4, NoWorkerAssumption DEF GuardsWork, TypeOK
<1>7. Line(waiters', pc')
  <2>1. \A i \in 1..Len(waiters) : pc'[waiters[i]] = pc[waiters[i]]
    BY <1>1, <1>3 DEF Line, TypeOK
  <2>2. waiters \in Seq(Callers)
    BY DEF TypeOK
  <2>3. Line(waiters, pc')
    BY <2>1, <2>2, LineKept
  <2> QED BY <1>3, <2>3
<1>8. Balance'
  <2>1. Owed' = Owed \ {c}
    BY <1>3 DEF Owed, TypeOK
  <2>2. Cardinality(Owed \ {c}) = Cardinality(Owed) - 1
    BY Zenon, <1>1, Counted, FS_RemoveElement
  <2> QED BY SMTT(30), <1>0, <1>3, <1>4, <2>1, <2>2, Counted DEF Balance
<1>9. WorkersConserved'
  <2>1. Holders' = Holders \cup {c} /\ c \notin Holders
    BY <1>1, <1>3, <1>4, NoWorkerAssumption DEF Holders, TypeOK
  <2>2. Cardinality(Holders \cup {c}) = Cardinality(Holders) + 1
    BY Zenon, <2>1, Counted, FS_AddElement
  <2>3. ToSet(queue) = ToSet(Tail(queue)) \cup {Head(queue)}
    <3>1. DOMAIN queue = 1..Len(queue) /\ DOMAIN Tail(queue) = 1..(Len(queue) - 1)
      BY <1>0, <1>4
    <3>2. Head(queue) = queue[1] /\ \A i \in 1..(Len(queue) - 1) : Tail(queue)[i] = queue[i + 1]
      BY <1>0, <1>2
    <3>3. \A i \in 1..Len(queue) : i = 1 \/ (i - 1 \in 1..(Len(queue) - 1) /\ (i - 1) + 1 = i)
      BY <1>0
    <3>4. \A i \in 1..(Len(queue) - 1) : i + 1 \in 1..Len(queue)
      BY <1>0
    <3>5. 1 \in 1..Len(queue)
      BY <1>0, <1>2
    <3>6. ToSet(queue) \subseteq ToSet(Tail(queue)) \cup {Head(queue)}
      <4> SUFFICES ASSUME NEW i \in 1..Len(queue), queue[i] # Head(queue)
                   PROVE  \E j \in DOMAIN Tail(queue) : Tail(queue)[j] = queue[i]
        BY <3>1 DEF ToSet
      <4>1. i - 1 \in 1..(Len(queue) - 1) /\ (i - 1) + 1 = i
        BY <3>2, <3>3
      <4>2. Tail(queue)[i - 1] = queue[i]
        BY <3>2, <4>1
      <4> QED BY ZenonT(40), <3>1, <4>1, <4>2
    <3>7. ToSet(Tail(queue)) \cup {Head(queue)} \subseteq ToSet(queue)
      BY SMTT(30), <3>1, <3>2, <3>4, <3>5 DEF ToSet
    <3> QED BY <3>6, <3>7
  <2>4. {worker'[d] : d \in Holders'} = {worker[d] : d \in Holders} \cup {Head(queue)}
    BY <1>3, <2>1 DEF Holders, TypeOK
  <2>5. Workers = ToSet(queue') \cup {worker'[d] : d \in Holders'}
    BY ZenonT(40), <1>3, <2>3, <2>4, Conserved
  <2>6. Len(queue') + Cardinality(Holders') = Cardinality(Workers)
    BY SMTT(30), <1>0, <1>3, <1>4, <2>1, <2>2, Counted, Conserved
  <2> QED BY <2>5, <2>6 DEF WorkersConserved, Holders
<1> QED BY SMTT(30), <1>5, <1>6, <1>7, <1>8, <1>9

\* There is room for a worker that is dropped.
LEMMA DropWorkerIInv ==
  ASSUME IInv, NEW c \in Callers, DropWorker(c)
  PROVE  IInv'
<1> USE DEF IInv
<1>0. queue \in Seq(Workers) /\ Len(queue) \in Nat /\ permits \in Nat
  BY DEF TypeOK
<1>1. pc[c] = "working" /\ c \in Holders /\ worker[c] \in Workers /\ c \notin Owed
  BY DEF DropWorker, Owed, Holders, GuardsWork, TypeOK
<1>2. Len(queue) < Cardinality(Workers)
  <2>1. Holders # {}
    BY <1>1
  <2>2. Cardinality(Holders) # 0
    BY <2>1, Counted, FS_EmptySet
  <2> QED BY SMTT(30), <1>0, <2>2, Counted, Conserved
<1>3. /\ queue' = Append(queue, worker[c]) /\ worker' = [worker EXCEPT ![c] = NoWorker]
      /\ pc' = [pc EXCEPT ![c] = "dropping"] /\ UNCHANGED <<permits, waiters, panicked>>
  BY <1>2 DEF DropWorker
<1>4. queue' \in Seq(Workers) /\ Len(queue') = Len(queue) + 1
  BY <1>0, <1>1, <1>3
<1>5. TypeOK' /\ ~panicked'
  BY <1>3, <1>4 DEF TypeOK, States
<1>6. GuardsWork'
  BY <1>3 DEF GuardsWork, TypeOK
<1>7. Line(waiters', pc')
  <2>1. \A i \in 1..Len(waiters) : pc'[waiters[i]] = pc[waiters[i]]
    BY <1>1, <1>3 DEF Line, TypeOK
  <2>2. waiters \in Seq(Callers)
    BY DEF TypeOK
  <2>3. Line(waiters, pc')
    BY SMTT(30), <2>1, <2>2, LineKept
  <2> QED BY <1>3, <2>3
<1>8. Balance'
  <2>1. Owed' = Owed \cup {c}
    BY <1>3 DEF Owed, TypeOK
  <2>2. Cardinality(Owed \cup {c}) = Cardinality(Owed) + 1
    BY ZenonT(40), <1>1, Counted, FS_AddElement
  <2> QED BY SMTT(30), <1>0, <1>3, <1>4, <2>1, <2>2, Counted DEF Balance
<1>9. WorkersConserved'
  <2>1. Holders' = Holders \ {c}
    BY <1>3 DEF Holders, TypeOK
  <2>2. Cardinality(Holders \ {c}) = Cardinality(Holders) - 1
    BY Zenon, <1>1, Counted, FS_RemoveElement
  <2>3. ToSet(queue') = ToSet(queue) \cup {worker[c]}
    <3>1. DOMAIN queue = 1..Len(queue) /\ DOMAIN queue' = 1..(Len(queue) + 1)
      BY <1>0, <1>4
    <3>2. /\ queue'[Len(queue) + 1] = worker[c]
          /\ \A i \in 1..Len(queue) : queue'[i] = queue[i]
      BY SMTT(30), <1>0, <1>1, <1>3
    <3>3. \A i \in 1..(Len(queue) + 1) : i \in 1..Len(queue) \/ i = Len(queue) + 1
      BY <1>0
    <3>4. /\ Len(queue) + 1 \in 1..(Len(queue) + 1)
          /\ \A i \in 1..Len(queue) : i \in 1..(Len(queue) + 1)
      BY <1>0
    <3>5. ToSet(queue') \subseteq ToSet(queue) \cup {worker[c]}
      BY SMTT(30), <3>1, <3>2, <3>3 DEF ToSet
    <3>6. ToSet(queue) \cup {worker[c]} \subseteq ToSet(queue')
      BY SMTT(30), <3>1, <3>2, <3>4 DEF ToSet
    <3> QED BY <3>5, <3>6
  <2>4. {worker[d] : d \in Holders} = {worker'[d] : d \in Holders'} \cup {worker[c]}
    BY <1>1, <1>3, <2>1 DEF Holders, TypeOK
  <2>5. Workers = ToSet(queue') \cup {worker'[d] : d \in Holders'}
    BY Zenon, <2>3, <2>4, Conserved
  <2>6. Len(queue') + Cardinality(Holders') = Cardinality(Workers)
    BY SMTT(30), <1>0, <1>4, <2>1, <2>2, Counted, Conserved
  <2> QED BY <2>5, <2>6 DEF WorkersConserved, Holders
<1> QED BY SMTT(30), <1>5, <1>6, <1>7, <1>8, <1>9

-----------------------------------------------------------------------------
\* Every step keeps the invariant.
LEMMA NextIInv == IInv /\ [Next]_vars => IInv'
<1> SUFFICES ASSUME IInv, [Next]_vars PROVE IInv'
  OBVIOUS
<1>1. CASE UNCHANGED vars
  <2>1. UNCHANGED <<queue, permits, waiters, pc, worker, panicked>>
    BY <1>1 DEF vars
  <2> QED BY <2>1 DEF IInv, TypeOK, Balance, Owed, GuardsWork, Line, WorkersConserved
<1>2. ASSUME NEW c \in Callers, Pop(c) PROVE IInv'
  BY <1>2, PopIInv
<1>3. ASSUME NEW c \in Callers, Wake(c) PROVE IInv'
  BY <1>3, WakeIInv
<1>4. ASSUME NEW c \in Callers, Cancel(c) PROVE IInv'
  BY <1>4, CancelIInv
<1>5. ASSUME NEW c \in Callers, TryPop(c) PROVE IInv'
  BY ZenonT(40), <1>5, TakePermitIInv DEF TryPop
<1>6. ASSUME NEW c \in Callers, TakeWorker(c) PROVE IInv'
  BY <1>6, TakeWorkerIInv
<1>7. ASSUME NEW c \in Callers, DropWorker(c) PROVE IInv'
  BY <1>7, DropWorkerIInv
<1>8. ASSUME NEW c \in Callers, DropPermit(c) PROVE IInv'
  BY <1>8, ReleaseIInv DEF DropPermit
<1> QED BY SMTT(30), <1>1, <1>2, <1>3, <1>4, <1>5, <1>6, <1>7, <1>8 DEF Next, Drop

\* The invariant holds of every run of the queue.
LEMMA Invariant == Spec => []IInv
BY InitIInv, NextIInv, PTL DEF Spec

\* The fields of WorkerQueue and Worker keep their types.
THEOREM TypeCorrect == Spec => []TypeOK
<1>1. IInv => TypeOK
  BY DEF IInv
<1> QED BY <1>1, Invariant, PTL

\* The unwrap of queue.pop() in pop and try_pop never fails, however many callers
\* pop, cancel and drop at the same time: a permit is given back only after the
\* worker was pushed.
THEOREM PopFindsWorker == Spec => []NoEmptyPop
<1>1. IInv => NoEmptyPop
  <2> SUFFICES ASSUME IInv, NEW c \in Callers, pc[c] = "popping" PROVE queue # <<>>
    BY DEF IInv, NoEmptyPop
  <2>1. Owed # {}
    BY DEF Owed
  <2>2. Cardinality(Owed) # 0
    BY <2>1, Counted, FS_EmptySet
  <2> QED BY <2>2, Counted DEF IInv, Balance, TypeOK
<1> QED BY <1>1, Invariant, PTL

\* No worker is lost or held twice: the push in Worker::drop, whose result is
\* ignored, always finds room.
THEOREM NoWorkerLost == Spec => []WorkersConserved
<1>1. IInv => WorkersConserved
  BY DEF IInv
<1> QED BY <1>1, Invariant, PTL
=============================================================================
