------------------------- MODULE CompressTreeProofs -------------------------
(***************************************************************************)
(* Theorems about CompressTree, for every number of inputs and every arity *)
(* above one.                                                              *)
(*                                                                         *)
(* The invariant says that the labels of everything that is in flight or   *)
(* in the tree tile the full range, that labels which touch cover leaves   *)
(* which touch, and that what is in the tree cannot be reduced further. It *)
(* needs the bound Len(proofs) <= end - start: it is what keeps the end    *)
(* point that split_off computes strictly inside the range it splits.      *)
(***************************************************************************)
EXTENDS CompressTree, SequenceTheorems, TLAPS

\* A queue of proofs that can be composed: each covers something, and each
\* starts where the one before it stopped.
Queue(q, n) ==
  /\ q \in Seq(Proof)
  /\ Len(q) >= 1
  /\ \A i \in 1..Len(q) : q[i].lo < q[i].hi /\ q[i].hi <= n
  /\ \A i, j \in 1..Len(q) : i < j => q[i].hi <= q[j].lo
  /\ Chain(q)

ItemOK(r, full, n) ==
  /\ r.start \in Nat /\ r.end \in Nat
  /\ r.start < r.end /\ r.end <= full
  /\ Queue(r.proofs, n)
  /\ Len(r.proofs) <= r.end - r.start
  /\ r.start = 0 <=> Lo(r) = 0
  /\ r.end = full <=> Hi(r) = n

\* Disjoint labels that agree with the leaves where they touch.
Beside(r, s) ==
  /\ r.end <= s.start \/ s.end <= r.start
  /\ r.end = s.start => Hi(r) = Lo(s)
  /\ s.end = r.start => Hi(s) = Lo(r)

Within(x, r) == r.start <= x /\ x < r.end

Tiling(S, full, n) ==
  /\ \A r \in S : ItemOK(r, full, n)
  /\ \A r, s \in S : r # s => Beside(r, s)
  /\ \A x \in 0..(full - 1) : \E r \in S : Within(x, r)

\* What is in the tree is too small for a batch and has no sibling there.
Settled(M, full, size) ==
  \A k \in DOMAIN M : /\ Len(M[k].proofs) < size
                      /\ ~(k = 0 /\ M[k].end = full)
                      /\ M[k].end \notin DOMAIN M

FlightOK(F, full, size) ==
  \A b \in F : /\ b \in Batch
               /\ Len(b.proofs) <= size
               /\ b.is_complete <=> (b.start = 0 /\ b.end = full)

\* Entries of the map are filed under the start of their range.
MapOK(M) ==
  /\ DOMAIN M \subseteq Nat
  /\ \A k \in DOMAIN M : M[k] \in RangeProofs /\ M[k].start = k

\* The part of the invariant that is about the batches F and the map M.
Good(F, M, full, n, size) ==
  /\ F \subseteq Batch
  /\ MapOK(M)
  /\ Tiling(F \cup Range(M), full, n)
  /\ Settled(M, full, size)
  /\ FlightOK(F, full, size)

\* The inductive invariant.
IInv ==
  /\ TypeOK
  /\ status = "reducing" =>
       /\ reduce_batch_size > 1
       /\ Good(flight, map, full_range, inputs, reduce_batch_size)
  /\ ReturnsFullProof

-----------------------------------------------------------------------------
(* Queues of proofs. *)

\* The leaves a proof of a queue covers are numbers.
LEMMA ProofNat ==
  ASSUME NEW q \in Seq(Proof), NEW i \in 1..Len(q)
  PROVE  q[i].lo \in Nat /\ q[i].hi \in Nat
<1>1. q[i] \in Proof
  BY ElementOfSeq
<1> QED
  BY <1>1 DEF Proof

\* Joining two queues, the second of which starts where the first one stops.
LEMMA ConcatQueue ==
  ASSUME NEW a, NEW c, NEW n \in Nat,
         Queue(a, n), Queue(c, n), a[Len(a)].hi = c[1].lo
  PROVE  /\ Queue(a \o c, n)
         /\ Len(a \o c) = Len(a) + Len(c)
         /\ (a \o c)[1] = a[1]
         /\ (a \o c)[Len(a \o c)] = c[Len(c)]
<1> DEFINE q == a \o c
<1>1. a \in Seq(Proof) /\ c \in Seq(Proof)
  BY DEF Queue
<1>2. Len(a) \in Nat /\ Len(c) \in Nat /\ Len(a) >= 1 /\ Len(c) >= 1
  BY <1>1 DEF Queue
<1>3. q \in Seq(Proof) /\ Len(q) = Len(a) + Len(c)
  BY <1>1
<1>4. \A i \in 1..Len(a) : q[i] = a[i]
  BY <1>1, <1>2
<1>5. \A i \in 1..Len(c) : q[Len(a) + i] = c[i]
  BY <1>1, <1>2
<1> HIDE DEF q
<1>6. q[1] = a[1] /\ q[Len(q)] = c[Len(c)]
  BY <1>2, <1>3, <1>4, <1>5
<1>7. \A i \in 1..Len(q) : q[i].lo < q[i].hi /\ q[i].hi <= n
  <2> SUFFICES ASSUME NEW i \in 1..Len(q)
               PROVE  q[i].lo < q[i].hi /\ q[i].hi <= n
    OBVIOUS
  <2>1. CASE i <= Len(a)
    BY <1>2, <1>4, <2>1 DEF Queue
  <2>2. CASE i > Len(a)
    <3>1. (i - Len(a)) \in 1..Len(c) /\ Len(a) + (i - Len(a)) = i
      BY <1>2, <1>3, <2>2
    <3> QED BY Zenon, <1>5, <3>1 DEF Queue
  <2> QED BY <1>2, <2>1, <2>2
<1>8. Chain(q)
  <2> SUFFICES ASSUME NEW i \in 1..(Len(q) - 1) PROVE q[i].hi = q[i + 1].lo
    BY DEF Chain
  <2>1. CASE i < Len(a)
    BY <1>2, <1>4, <2>1 DEF Queue, Chain
  <2>2. CASE i = Len(a)
    BY <1>2, <1>4, <1>5, <2>2
  <2>3. CASE i > Len(a)
    <3> DEFINE j == i - Len(a)
    <3>1. /\ j \in 1..(Len(c) - 1) /\ j \in 1..Len(c) /\ j + 1 \in 1..Len(c)
          /\ Len(a) + j = i /\ Len(a) + (j + 1) = i + 1
      BY <1>2, <1>3, <2>3
    <3> HIDE DEF j
    <3>2. c[j].hi = c[j + 1].lo
      BY <3>1 DEF Queue, Chain
    <3> QED BY SMTT(30), <1>5, <3>1, <3>2
  <2> QED BY <1>2, <2>1, <2>2, <2>3
<1>9. \A i, j \in 1..Len(q) : i < j => q[i].hi <= q[j].lo
  <2> SUFFICES ASSUME NEW i \in 1..Len(q), NEW j \in 1..Len(q), i < j
               PROVE  q[i].hi <= q[j].lo
    OBVIOUS
  <2>1. CASE j <= Len(a)
    BY <1>2, <1>4, <2>1 DEF Queue
  <2>2. CASE i > Len(a)
    <3>1. /\ (i - Len(a)) \in 1..Len(c) /\ Len(a) + (i - Len(a)) = i
          /\ (j - Len(a)) \in 1..Len(c) /\ Len(a) + (j - Len(a)) = j
          /\ i - Len(a) < j - Len(a)
      BY <1>2, <1>3, <2>2
    <3> QED BY ZenonT(40), <1>5, <3>1 DEF Queue
  <2>3. CASE i <= Len(a) /\ j > Len(a)
    <3> DEFINE l == j - Len(a)
    <3>1. l \in 1..Len(c) /\ Len(a) + l = j /\ i \in 1..Len(a)
      BY <1>2, <1>3, <2>3
    <3>2. q[i] = a[i] /\ q[j] = c[l]
      BY <1>4, <1>5, <3>1
    <3> HIDE DEF l
    <3>3. /\ \A k \in 1..Len(a) : a[k].lo \in Nat /\ a[k].hi \in Nat
          /\ \A k \in 1..Len(c) : c[k].lo \in Nat /\ c[k].hi \in Nat
      BY <1>1, ProofNat
    <3>4. a[i].hi <= a[Len(a)].hi
      BY <1>2, <3>1, <3>3, SMTT(30) DEF Queue
    <3>5. c[1].lo <= c[l].lo
      BY <1>2, <3>1, <3>3 DEF Queue
    <3>6. 1 \in 1..Len(c) /\ Len(a) \in 1..Len(a)
      BY <1>2
    <3>7. a[i].hi <= c[l].lo
      BY <3>1, <3>3, <3>4, <3>5, <3>6
    <3> QED BY <3>2, <3>7
  <2> QED BY <1>2, <2>1, <2>2, <2>3
<1> QED
  BY <1>2, <1>3, <1>6, <1>7, <1>8, <1>9 DEF Queue, q

\* split_off on the queue: both halves are queues, and touch.
LEMMA SplitQueue ==
  ASSUME NEW q, NEW n \in Nat, NEW at \in Nat,
         Queue(q, n), 1 <= at, at < Len(q)
  PROVE  LET a == SubSeq(q, 1, at)
             c == SubSeq(q, at + 1, Len(q))
         IN  /\ Queue(a, n) /\ Len(a) = at
             /\ Queue(c, n) /\ Len(c) = Len(q) - at
             /\ a[1] = q[1] /\ c[Len(c)] = q[Len(q)]
             /\ a[Len(a)] = q[at] /\ c[1] = q[at + 1]
<1> DEFINE a == SubSeq(q, 1, at)
           c == SubSeq(q, at + 1, Len(q))
<1>1. q \in Seq(Proof) /\ Len(q) \in Nat
  BY DEF Queue
<1>2. a \in Seq(Proof) /\ Len(a) = at /\ \A i \in 1..at : a[i] = q[i]
  BY <1>1
<1>3. /\ c \in Seq(Proof) /\ Len(c) = Len(q) - at
      /\ \A i \in 1..(Len(q) - at) : c[i] = q[at + i]
  BY <1>1
<1> HIDE DEF a, c
<1>4. Queue(a, n)
  <2>1. \A i \in 1..at : i \in 1..Len(q)
    BY <1>1
  <2>2. \A i \in 1..at : a[i].lo < a[i].hi /\ a[i].hi <= n
    BY <1>2, <2>1 DEF Queue
  <2>3. \A i, j \in 1..at : i < j => a[i].hi <= a[j].lo
    <3> SUFFICES ASSUME NEW i \in 1..at, NEW j \in 1..at, i < j
                 PROVE  a[i].hi <= a[j].lo
      OBVIOUS
    <3>1. i \in 1..Len(q) /\ j \in 1..Len(q) /\ a[i] = q[i] /\ a[j] = q[j]
      BY <1>2, <2>1
    <3>2. q[i].hi <= q[j].lo
      BY <3>1 DEF Queue
    <3> QED BY <3>1, <3>2
  <2>4. \A i \in 1..(at - 1) : a[i].hi = a[i + 1].lo
    <3> SUFFICES ASSUME NEW i \in 1..(at - 1) PROVE a[i].hi = a[i + 1].lo
      OBVIOUS
    <3>1. i \in 1..at /\ i + 1 \in 1..at /\ i \in 1..(Len(q) - 1)
      BY <1>1
    <3> QED BY <1>2, <3>1 DEF Queue, Chain
  <2> QED BY <1>2, <2>2, <2>3, <2>4 DEF Queue, Chain
<1>5. Queue(c, n)
  <2>1. \A i \in 1..Len(c) : at + i \in 1..Len(q)
    BY <1>1, <1>3
  <2>2. \A i \in 1..Len(c) : c[i].lo < c[i].hi /\ c[i].hi <= n
    BY <1>3, <2>1 DEF Queue
  <2>3. \A i, j \in 1..Len(c) : i < j => c[i].hi <= c[j].lo
    <3> SUFFICES ASSUME NEW i \in 1..Len(c), NEW j \in 1..Len(c), i < j
                 PROVE  c[i].hi <= c[j].lo
      OBVIOUS
    <3>1. /\ at + i \in 1..Len(q) /\ at + j \in 1..Len(q) /\ at + i < at + j
          /\ c[i] = q[at + i] /\ c[j] = q[at + j]
      BY <1>3, <2>1
    <3>2. q[at + i].hi <= q[at + j].lo
      BY <3>1 DEF Queue
    <3> QED BY <3>1, <3>2
  <2>4. \A i \in 1..(Len(c) - 1) : c[i].hi = c[i + 1].lo
    <3> SUFFICES ASSUME NEW i \in 1..(Len(c) - 1) PROVE c[i].hi = c[i + 1].lo
      OBVIOUS
    <3>1. /\ i \in 1..Len(c) /\ i + 1 \in 1..Len(c)
          /\ at + i \in 1..(Len(q) - 1) /\ at + (i + 1) = (at + i) + 1
      BY <1>1, <1>3
    <3> QED BY ZenonT(40), <1>3, <3>1 DEF Queue, Chain
  <2> QED BY <1>1, <1>3, <2>2, <2>3, <2>4 DEF Queue, Chain
<1>6. a[1] = q[1] /\ a[Len(a)] = q[at]
  BY <1>2
<1>7. c[1] = q[at + 1] /\ c[Len(c)] = q[Len(q)]
  <2>1. 1 \in 1..(Len(q) - at) /\ Len(c) \in 1..(Len(q) - at)
    BY <1>1, <1>3
  <2>2. at + Len(c) = Len(q)
    BY <1>1, <1>3
  <2> QED BY Zenon, <1>3, <2>1, <2>2
<1> QED
  BY Zenon, <1>2, <1>3, <1>4, <1>5, <1>6, <1>7 DEF a, c

\* push_left, push_right and push_both on two ranges that touch.
Concat(r, s) ==
  [start |-> r.start, end |-> s.end, proofs |-> r.proofs \o s.proofs]

LEMMA ConcatItems ==
  ASSUME NEW r, NEW s, NEW full \in Nat, NEW n \in Nat,
         ItemOK(r, full, n), ItemOK(s, full, n),
         r.end = s.start, Hi(r) = Lo(s)
  PROVE  /\ ItemOK(Concat(r, s), full, n)
         /\ Lo(Concat(r, s)) = Lo(r) /\ Hi(Concat(r, s)) = Hi(s)
<1> DEFINE a == r.proofs
           c == s.proofs
           t == Concat(r, s)
<1>1. t.start = r.start /\ t.end = s.end /\ t.proofs = a \o c
  BY Zenon DEF Concat
<1>2. Queue(a, n) /\ Queue(c, n) /\ a[Len(a)].hi = c[1].lo
  BY DEF ItemOK, Lo, Hi
<1> HIDE DEF a, c, t
<1>3. /\ Queue(a \o c, n)
      /\ Len(a \o c) = Len(a) + Len(c)
      /\ (a \o c)[1] = a[1]
      /\ (a \o c)[Len(a \o c)] = c[Len(c)]
  BY Zenon, <1>2, ConcatQueue
<1>4. Len(a) \in Nat /\ Len(c) \in Nat
  BY <1>2 DEF Queue
<1>5. Lo(t) = Lo(r) /\ Hi(t) = Hi(s)
  BY <1>1, <1>3 DEF Lo, Hi, a, c
<1>6. /\ r.start \in Nat /\ r.end \in Nat /\ s.start \in Nat /\ s.end \in Nat
      /\ r.start < r.end /\ s.start < s.end /\ s.end <= full
      /\ Len(a) <= r.end - r.start
      /\ Len(c) <= s.end - s.start
  BY DEF ItemOK, a, c
<1>7. t.start \in Nat /\ t.end \in Nat /\ t.start < t.end /\ t.end <= full
  BY <1>1, <1>6
<1>8. Len(t.proofs) <= t.end - t.start
  BY <1>1, <1>3, <1>4, <1>6
<1>9. t.start = 0 <=> Lo(t) = 0
  BY <1>1, <1>5 DEF ItemOK
<1>10. t.end = full <=> Hi(t) = n
  BY <1>1, <1>5 DEF ItemOK
<1>11. ItemOK(t, full, n)
  BY <1>1, <1>3, <1>7, <1>8, <1>9, <1>10 DEF ItemOK
<1> QED
  BY <1>5, <1>11 DEF t

\* A range covers at least one leaf, and leaves are numbers.
LEMMA LoHi ==
  ASSUME NEW r, NEW full \in Nat, NEW n \in Nat, ItemOK(r, full, n)
  PROVE  Lo(r) \in Nat /\ Hi(r) \in Nat /\ Lo(r) < Hi(r) /\ Hi(r) <= n
<1> DEFINE q == r.proofs
<1>1. Queue(q, n)
  BY DEF ItemOK
<1> HIDE DEF q
<1>2. q \in Seq(Proof) /\ Len(q) \in Nat /\ Len(q) >= 1
  BY <1>1 DEF Queue
<1>3. \A i \in 1..Len(q) : q[i].lo \in Nat /\ q[i].hi \in Nat
  BY <1>2, ProofNat
<1>4. q[1].lo < q[Len(q)].hi /\ q[Len(q)].hi <= n
  BY <1>1, <1>2, <1>3 DEF Queue
<1> QED
  BY <1>2, <1>3, <1>4 DEF Lo, Hi, q

\* The proof of a batch, as a range with one proof in its queue.
LEMMA SingleOK ==
  ASSUME NEW b, NEW full \in Nat, NEW n \in Nat, NEW t, NEW x \in BOOLEAN,
         ItemOK(b, full, n), t.start = b.start, t.end = b.end,
         t.proofs = <<[lo |-> Lo(b), hi |-> Hi(b), is_complete |-> x]>>
  PROVE  /\ ItemOK(t, full, n) /\ Lo(t) = Lo(b) /\ Hi(t) = Hi(b)
         /\ Len(t.proofs) = 1
<1>1. Lo(b) \in Nat /\ Hi(b) \in Nat /\ Lo(b) < Hi(b) /\ Hi(b) <= n
  BY LoHi
<1>2. Queue(t.proofs, n) /\ Len(t.proofs) = 1
  BY <1>1 DEF Queue, Chain, Proof
<1>3. Lo(t) = Lo(b) /\ Hi(t) = Hi(b)
  BY <1>2 DEF Lo, Hi
<1>4. /\ b.start \in Nat /\ b.end \in Nat /\ b.start < b.end /\ b.end <= full
      /\ b.start = 0 <=> Lo(b) = 0
      /\ b.end = full <=> Hi(b) = n
  BY DEF ItemOK
<1>5. Len(t.proofs) <= t.end - t.start
  BY <1>2, <1>4
<1> QED
  BY <1>2, <1>3, <1>4, <1>5 DEF ItemOK

\* The two halves of split_off, with the end point that it computes: they are
\* well formed ranges that touch and that together are the range split.
LEMMA SplitOK ==
  ASSUME NEW r, NEW full \in Nat, NEW n \in Nat, NEW at \in Nat,
         ItemOK(r, full, n), 1 <= at, at < Len(r.proofs)
  PROVE  LET a == Keep(r, at)
             c == Remainder(r, at)
         IN  /\ ItemOK(a, full, n) /\ ItemOK(c, full, n)
             /\ a.start = r.start /\ c.end = r.end /\ a.end = c.start
             /\ Lo(a) = Lo(r) /\ Hi(c) = Hi(r) /\ Hi(a) = Lo(c)
             /\ Len(a.proofs) = at
             /\ Len(c.proofs) = Len(r.proofs) - at
             /\ a.end < full
<1> DEFINE q == r.proofs
           a == Keep(r, at)
           c == Remainder(r, at)
           u == SubSeq(q, 1, at)
           v == SubSeq(q, at + 1, Len(q))
<1>1. /\ r.start \in Nat /\ r.end \in Nat /\ r.start < r.end /\ r.end <= full
      /\ Queue(q, n) /\ Len(q) <= r.end - r.start
      /\ q \in Seq(Proof) /\ Len(q) \in Nat
  BY DEF ItemOK, Queue
<1>2. EndPoint(r, at) = r.start + at /\ r.start + at < r.end
  BY <1>1 DEF EndPoint
<1>3. /\ a.start = r.start /\ a.end = r.start + at /\ a.proofs = u
      /\ c.start = r.start + at /\ c.end = r.end /\ c.proofs = v
  <2>1. ~(at >= Len(r.proofs))
    BY <1>1
  <2>2. a = [start |-> r.start, end |-> r.start + at, proofs |-> u]
    BY <1>2, <2>1 DEF Keep
  <2>3. c = [start |-> r.start + at, end |-> r.end, proofs |-> v]
    BY <1>2 DEF Remainder
  <2> HIDE DEF a, c, u, v, q
  <2> QED BY <2>2, <2>3
<1>4. /\ Queue(u, n) /\ Len(u) = at /\ u[1] = q[1] /\ u[Len(u)] = q[at]
      /\ Queue(v, n) /\ Len(v) = Len(q) - at /\ v[1] = q[at + 1]
      /\ v[Len(v)] = q[Len(q)]
  <2>1. at < Len(q)
    OBVIOUS
  <2> HIDE DEF q
  <2>2. Queue(q, n)
    BY <1>1
  <2> QED BY ONLY n \in Nat, at \in Nat, 1 <= at, <2>1, <2>2, SplitQueue, ZenonT(40)
<1>5. /\ q[at].hi = q[at + 1].lo
      /\ q[at].lo < q[at].hi
      /\ q[at + 1].lo < q[at + 1].hi /\ q[at + 1].hi <= n
  BY <1>1 DEF Queue, Chain
<1>6. \A i \in 1..Len(q) : q[i].lo \in Nat /\ q[i].hi \in Nat
  BY <1>1, ProofNat
<1>7. q[at].hi > 0 /\ q[at].hi < n
  <2>1. /\ q[at].lo \in Nat /\ q[at].hi \in Nat
        /\ q[at + 1].lo \in Nat /\ q[at + 1].hi \in Nat
    BY <1>1, <1>6
  <2> QED BY <1>5, <2>1
<1> HIDE DEF q, a, c, u, v
<1>8. /\ Lo(a) = q[1].lo /\ Hi(a) = q[at].hi
      /\ Lo(c) = q[at + 1].lo /\ Hi(c) = q[Len(q)].hi
  BY <1>3, <1>4 DEF Lo, Hi
<1>9. Lo(r) = q[1].lo /\ Hi(r) = q[Len(q)].hi
  BY DEF Lo, Hi, q
<1>10. ItemOK(a, full, n)
  <2>1. a.start = 0 <=> Lo(a) = 0
    BY <1>3, <1>8, <1>9 DEF ItemOK
  <2>2. a.end = full <=> Hi(a) = n
    BY <1>1, <1>2, <1>3, <1>7, <1>8
  <2>3. /\ a.start \in Nat /\ a.end \in Nat /\ a.start < a.end /\ a.end <= full
        /\ Len(a.proofs) <= a.end - a.start
    BY <1>1, <1>2, <1>3, <1>4, SMTT(30)
  <2> QED BY <1>3, <1>4, <2>1, <2>2, <2>3 DEF ItemOK
<1>11. ItemOK(c, full, n)
  <2>1. c.start = 0 <=> Lo(c) = 0
    BY <1>1, <1>3, <1>5, <1>7, <1>8
  <2>2. c.end = full <=> Hi(c) = n
    BY <1>3, <1>8, <1>9 DEF ItemOK
  <2> QED BY <1>1, <1>2, <1>3, <1>4, <2>1, <2>2 DEF ItemOK
<1> QED
  BY <1>1, <1>2, <1>3, <1>4, <1>5, <1>8, <1>9, <1>10, <1>11 DEF a, c, q

-----------------------------------------------------------------------------
(* Tilings. *)

\* An item that takes the place of one with the same label and leaves.
LEMMA ReplaceTile ==
  ASSUME NEW T, NEW a, NEW y, NEW full \in Nat, NEW n \in Nat,
         Tiling(T \cup {a}, full, n), a \notin T, ItemOK(y, full, n),
         y.start = a.start, y.end = a.end, Lo(y) = Lo(a), Hi(y) = Hi(a)
  PROVE  Tiling(T \cup {y}, full, n)
<1>1. \A t \in T : Beside(t, y) /\ Beside(y, t)
  <2> SUFFICES ASSUME NEW t \in T PROVE Beside(t, y) /\ Beside(y, t)
    OBVIOUS
  <2>1. Beside(t, a)
    BY DEF Tiling
  <2> QED BY <2>1 DEF Beside
<1>2. \A x \in 0..(full - 1) : \E r \in T \cup {y} : Within(x, r)
  <2> SUFFICES ASSUME NEW x \in 0..(full - 1)
               PROVE  \E r \in T \cup {y} : Within(x, r)
    OBVIOUS
  <2>1. PICK r \in T \cup {a} : Within(x, r)
    BY DEF Tiling
  <2> QED BY <2>1 DEF Within
<1> QED
  BY <1>1, <1>2 DEF Tiling

\* Two items that touch, put together.
LEMMA MergeTiles ==
  ASSUME NEW T, NEW a, NEW c, NEW j, NEW full \in Nat, NEW n \in Nat,
         Tiling(T \cup {a, c}, full, n), a \notin T, c \notin T,
         a.end = c.start, ItemOK(j, full, n),
         j.start = a.start, j.end = c.end, Lo(j) = Lo(a), Hi(j) = Hi(c)
  PROVE  Tiling(T \cup {j}, full, n)
<1>1. ItemOK(a, full, n) /\ ItemOK(c, full, n)
  BY DEF Tiling
<1>2. /\ a.start \in Nat /\ a.end \in Nat /\ a.start < a.end
      /\ c.start \in Nat /\ c.end \in Nat /\ c.start < c.end
  BY <1>1 DEF ItemOK
<1>3. \A t \in T : Beside(t, j) /\ Beside(j, t)
  <2> SUFFICES ASSUME NEW t \in T PROVE Beside(t, j) /\ Beside(j, t)
    OBVIOUS
  <2>1. Beside(t, a) /\ Beside(t, c)
    BY DEF Tiling
  <2>2. ItemOK(t, full, n)
    BY DEF Tiling
  <2>3. t.start \in Nat /\ t.end \in Nat /\ t.start < t.end
    BY <2>2 DEF ItemOK
  <2> QED BY <1>2, <2>1, <2>3 DEF Beside
<1>4. \A x \in 0..(full - 1) : \E r \in T \cup {j} : Within(x, r)
  <2> SUFFICES ASSUME NEW x \in 0..(full - 1)
               PROVE  \E r \in T \cup {j} : Within(x, r)
    OBVIOUS
  <2>1. PICK r \in T \cup {a, c} : Within(x, r)
    BY DEF Tiling
  <2>2. CASE r \in T
    BY <2>1, <2>2
  <2>3. CASE r \in {a, c}
    BY <1>2, <2>1, <2>3 DEF Within
  <2> QED BY <2>2, <2>3
<1> QED
  BY <1>3, <1>4 DEF Tiling

\* An item cut in two.
LEMMA SplitTile ==
  ASSUME NEW T, NEW a, NEW c, NEW j, NEW full \in Nat, NEW n \in Nat,
         Tiling(T \cup {j}, full, n), j \notin T,
         ItemOK(a, full, n), ItemOK(c, full, n),
         a.end = c.start, j.start = a.start, j.end = c.end,
         Lo(j) = Lo(a), Hi(j) = Hi(c), Hi(a) = Lo(c)
  PROVE  Tiling(T \cup {a, c}, full, n)
<1>1. ItemOK(j, full, n)
  BY DEF Tiling
<1>2. /\ a.start \in Nat /\ a.end \in Nat /\ a.start < a.end
      /\ c.start \in Nat /\ c.end \in Nat /\ c.start < c.end
  BY <1>1 DEF ItemOK
<1>3. \A t \in T : /\ Beside(t, a) /\ Beside(a, t)
                   /\ Beside(t, c) /\ Beside(c, t)
  <2> SUFFICES ASSUME NEW t \in T
               PROVE  /\ Beside(t, a) /\ Beside(a, t)
                      /\ Beside(t, c) /\ Beside(c, t)
    OBVIOUS
  <2>1. Beside(t, j)
    BY DEF Tiling
  <2>2. ItemOK(t, full, n)
    BY DEF Tiling
  <2>3. t.start \in Nat /\ t.end \in Nat /\ t.start < t.end
    BY <2>2 DEF ItemOK
  <2> QED BY <1>2, <2>1, <2>3 DEF Beside
<1>4. Beside(a, c) /\ Beside(c, a)
  BY <1>2 DEF Beside
<1>5. \A x \in 0..(full - 1) : \E r \in T \cup {a, c} : Within(x, r)
  <2> SUFFICES ASSUME NEW x \in 0..(full - 1)
               PROVE  \E r \in T \cup {a, c} : Within(x, r)
    OBVIOUS
  <2>1. PICK r \in T \cup {j} : Within(x, r)
    BY DEF Tiling
  <2>2. CASE r \in T
    BY <2>1, <2>2
  <2>3. CASE r = j
    BY <1>2, <2>1, <2>3 DEF Within
  <2> QED BY <2>2, <2>3
<1> QED
  BY <1>3, <1>4, <1>5 DEF Tiling

-----------------------------------------------------------------------------
(* The tree. *)

\* Batches and entries of the map are different kinds of records.
LEMMA Kinds ==
  ASSUME NEW r \in Batch, NEW s \in RangeProofs
  PROVE  r # s
<1>1. "is_complete" \in DOMAIN r
  BY DEF Batch
<1>2. "is_complete" \notin DOMAIN s
  BY DEF RangeProofs
<1> QED
  BY <1>1, <1>2

\* The items a map holds after some of its keys are removed.
LEMMA RangeRestrict ==
  ASSUME NEW M, NEW S
  PROVE  /\ DOMAIN Restrict(M, S) = S
         /\ \A k \in S : Restrict(M, S)[k] = M[k]
         /\ Range(Restrict(M, S)) = {M[k] : k \in S}
BY DEF Restrict, Range

\* The items a map holds after an insertion under a new key.
LEMMA RangeInsert ==
  ASSUME NEW M, NEW r, r.start \notin DOMAIN M
  PROVE  /\ DOMAIN Insert(M, r) = DOMAIN M \cup {r.start}
         /\ \A k \in DOMAIN M : Insert(M, r)[k] = M[k]
         /\ Insert(M, r)[r.start] = r
         /\ Range(Insert(M, r)) = Range(M) \cup {r}
<1>1. /\ DOMAIN Insert(M, r) = DOMAIN M \cup {r.start}
      /\ \A k \in DOMAIN M : Insert(M, r)[k] = M[k]
      /\ Insert(M, r)[r.start] = r
  BY DEF Insert
<1>2. Range(Insert(M, r)) = Range(M) \cup {r}
  <2>1. ASSUME NEW x \in Range(Insert(M, r)) PROVE x \in Range(M) \cup {r}
    BY <1>1 DEF Range
  <2>2. ASSUME NEW x \in Range(M) \cup {r} PROVE x \in Range(Insert(M, r))
    BY <1>1 DEF Range
  <2> QED BY <2>1, <2>2
<1> QED
  BY <1>1, <1>2

\* `sibling` looks for the left sibling only in the entry just before the
\* proof; because labels are disjoint, that is where it has to be.
LEMMA LeftSiblingIs ==
  ASSUME NEW S, NEW M, NEW p, NEW full \in Nat, NEW n \in Nat,
         MapOK(M), Range(M) \subseteq S, Tiling(S, full, n), p.start \in Nat
  PROVE  /\ LeftSibling(M, p) = {k \in DOMAIN M : M[k].end = p.start}
         /\ \A k, l \in LeftSibling(M, p) : k = l
<1>1. \A k \in DOMAIN M : /\ k \in Nat /\ M[k].end \in Nat /\ k < M[k].end
                          /\ M[k].start = k /\ M[k] \in S
  <2> SUFFICES ASSUME NEW k \in DOMAIN M
               PROVE  /\ k \in Nat /\ M[k].end \in Nat /\ k < M[k].end
                      /\ M[k].start = k /\ M[k] \in S
    OBVIOUS
  <2>1. M[k] \in S /\ M[k].start = k /\ k \in Nat
    BY DEF MapOK, Range
  <2>2. ItemOK(M[k], full, n)
    BY <2>1 DEF Tiling
  <2> QED BY <2>1, <2>2 DEF ItemOK
<1>2. ASSUME NEW k \in DOMAIN M, NEW j \in DOMAIN M,
             M[k].end = p.start, j < p.start
      PROVE  j <= k
  <2> SUFFICES ASSUME k < j PROVE FALSE
    BY <1>1
  <2>1. M[k] # M[j]
    BY <1>1
  <2>2. M[k].end <= M[j].start \/ M[j].end <= M[k].start
    BY <1>1, <2>1 DEF Tiling, Beside
  <2> QED BY <1>1, <1>2, <2>2
<1>3. LeftSibling(M, p) = {k \in DOMAIN M : M[k].end = p.start}
  BY <1>1, <1>2 DEF LeftSibling
<1>4. \A k, l \in LeftSibling(M, p) : k = l
  BY <1>1 DEF LeftSibling
<1> QED
  BY <1>3, <1>4

\* push_left, push_right: two ranges that touch are put together.
Merged(T, a, c, full, n) ==
  LET j == Concat(a, c)
  IN  /\ j \in RangeProofs /\ j \notin T
      /\ j.start = a.start /\ j.end = c.end
      /\ j.proofs = a.proofs \o c.proofs
      /\ Tiling(T \cup {j}, full, n)

LEMMA MergeConcat ==
  ASSUME NEW T, NEW a \in RangeProofs, NEW c \in RangeProofs,
         NEW full \in Nat, NEW n \in Nat,
         Tiling(T \cup {a, c}, full, n), a \notin T, c \notin T, a.end = c.start
  PROVE  Merged(T, a, c, full, n)
<1> DEFINE j == Concat(a, c)
<1>1. ItemOK(a, full, n) /\ ItemOK(c, full, n)
  BY DEF Tiling
<1>2. /\ a.start \in Nat /\ a.end \in Nat /\ a.start < a.end
      /\ c.start \in Nat /\ c.end \in Nat /\ c.start < c.end
      /\ a.proofs \in Seq(Proof) /\ c.proofs \in Seq(Proof)
  BY <1>1 DEF ItemOK, RangeProofs
<1>3. a # c
  BY <1>2
<1>4. Hi(a) = Lo(c)
  BY <1>3 DEF Tiling, Beside
<1>5. /\ j.start = a.start /\ j.end = c.end /\ j.proofs = a.proofs \o c.proofs
  BY Zenon DEF Concat
<1>6. j \in RangeProofs
  <2>1. a.proofs \o c.proofs \in Seq(Proof)
    BY <1>2
  <2> QED BY <1>2, <2>1 DEF Concat, RangeProofs
<1>7. ItemOK(j, full, n) /\ Lo(j) = Lo(a) /\ Hi(j) = Hi(c)
  BY <1>1, <1>4, ConcatItems
<1> HIDE DEF j
<1>8. Tiling(T \cup {j}, full, n)
  BY <1>5, <1>7, MergeTiles
<1>9. j \notin T
  <2> SUFFICES ASSUME j \in T PROVE FALSE
    OBVIOUS
  <2>1. Beside(j, a)
    BY DEF Tiling
  <2> QED BY <1>2, <1>5, <2>1 DEF Beside
<1> QED
  BY <1>5, <1>6, <1>8, <1>9 DEF j, Merged

\* What pushing the proof of b between its siblings leaves.
Joined(F, M, b, J, R, full, n) ==
  LET T == (F \ {b}) \cup Range(R)
  IN  /\ J \in RangeProofs /\ J \notin T
      /\ Tiling(T \cup {J}, full, n)
      /\ MapOK(R)
      /\ \A k \in DOMAIN R : k \in DOMAIN M /\ R[k] = M[k]
      /\ J.start \notin DOMAIN R /\ J.end \notin DOMAIN R
      /\ \A k \in DOMAIN R : R[k].end # J.start

\* push_left, push_right and push_both keep the tiling, and what they make has
\* no sibling left in the tree.
LEMMA JoinOK ==
  ASSUME NEW F, NEW M, NEW b \in F, NEW full \in Nat, NEW n \in Nat,
         NEW size \in Nat, size > 1, F \subseteq Batch, MapOK(M), Settled(M, full, size),
         Tiling(F \cup Range(M), full, n)
  PROVE  LET p == RecursionProof(b)
         IN  /\ Joined(F, M, b, Join(M, p), Detach(M, p), full, n)
             /\ LeftSibling(M, p) \cup RightSibling(M, p) = {} =>
                  Len(Join(M, p).proofs) = 1
             /\ Len(Join(M, p).proofs) < 2 * size
<1> DEFINE p     == RecursionProof(b)
           left  == LeftSibling(M, p)
           right == RightSibling(M, p)
           L     == CHOOSE k \in left : TRUE
           q     == [start |-> b.start, end |-> b.end, proofs |-> <<p.proof>>]
           K     == IF left = {} THEN q ELSE Concat(M[L], q)
           J     == IF right = {} THEN K ELSE Concat(K, M[b.end])
           R     == Detach(M, p)
           T0    == (F \ {b}) \cup Range(M)
           T1    == (F \ {b}) \cup {M[k] : k \in DOMAIN M \ left}
           T     == (F \ {b}) \cup Range(R)
<1>1. ItemOK(b, full, n)
  BY DEF Tiling
<1>2. /\ b.start \in Nat /\ b.end \in Nat /\ b.start < b.end
      /\ Lo(b) \in Nat /\ Hi(b) \in Nat /\ b.is_complete \in BOOLEAN
  BY Zenon, <1>1, LoHi DEF ItemOK, Batch
<1>3. /\ p.start = b.start /\ p.end = b.end
      /\ p.proof = [lo |-> Lo(b), hi |-> Hi(b), is_complete |-> b.is_complete]
  BY DEF RecursionProof
<1> HIDE DEF p
<1>4. p.proof \in Proof /\ <<p.proof>> \in Seq(Proof)
  BY <1>2, <1>3 DEF Proof
<1>5. /\ ItemOK(q, full, n) /\ Lo(q) = Lo(b) /\ Hi(q) = Hi(b)
      /\ q.start = b.start /\ q.end = b.end /\ q.proofs = <<p.proof>>
      /\ Len(q.proofs) = 1 /\ q \in RangeProofs
  <2>1. /\ q.start = b.start /\ q.end = b.end /\ q.proofs = <<p.proof>>
        /\ q \in RangeProofs
    BY <1>2, <1>4 DEF RangeProofs
  <2> HIDE DEF q
  <2>2. /\ ItemOK(q, full, n) /\ Lo(q) = Lo(b) /\ Hi(q) = Hi(b)
        /\ Len(q.proofs) = 1
    BY <1>1, <1>2, <1>3, <2>1, SingleOK
  <2> QED BY <2>1, <2>2
<1>6. /\ left = {k \in DOMAIN M : M[k].end = b.start}
      /\ \A k, l \in left : k = l
      /\ right = {k \in DOMAIN M : k = b.end}
  BY <1>2, <1>3, LeftSiblingIs DEF RightSibling
<1>7. left # {} => L \in left
  OBVIOUS
<1>8. /\ DOMAIN R = DOMAIN M \ (left \cup right)
      /\ \A k \in DOMAIN R : R[k] = M[k]
      /\ Range(R) = {M[k] : k \in DOMAIN M \ (left \cup right)}
  BY RangeRestrict DEF Detach
<1>9. /\ Join(M, p) = J /\ (left \cup right = {} => J = q)
  <2> DEFINE s == IF left = {} THEN <<>> ELSE M[L].proofs
             u == s \o <<p.proof>>
             v == IF right = {} THEN <<>> ELSE M[b.end].proofs
  <2>1. left # {} => M[L].proofs \in Seq(Proof)
    BY <1>6, <1>7 DEF MapOK, RangeProofs
  <2>2. <<>> \o <<p.proof>> = <<p.proof>>
    BY <1>4
  <2>3. u \in Seq(Proof) /\ u \o <<>> = u
    BY <1>4, <2>1, ConcatEmptySeq
  <2>4. K = [start |-> IF left = {} THEN b.start ELSE M[L].start,
             end |-> b.end, proofs |-> u]
    BY Zenon, <2>2 DEF Concat
  <2>5. Join(M, p) = [start  |-> IF left = {} THEN b.start ELSE M[L].start,
                      end    |-> IF right = {} THEN b.end ELSE M[b.end].end,
                      proofs |-> u \o v]
    BY <1>3 DEF Join
  <2> HIDE DEF u, K
  <2>6. Join(M, p) = J
    BY Zenon, <2>3, <2>4, <2>5 DEF Concat
  <2> QED BY <2>6 DEF K
<1> HIDE DEF q, L, left, right, R
<1>10. \A t \in T0 : t.end <= b.start \/ b.end <= t.start
  <2>1. b \notin T0 /\ T0 \subseteq F \cup Range(M)
    BY Kinds DEF MapOK, Range
  <2> QED BY <2>1 DEF Tiling, Beside
<1>11. Tiling(T0 \cup {q}, full, n) /\ q \notin T0
  <2>1. b \notin T0 /\ T0 \cup {b} = F \cup Range(M)
    BY Kinds DEF MapOK, Range
  <2>2. q \notin T0
    BY <1>2, <1>5, <1>10
  <2> HIDE DEF T0
  <2> QED BY <1>5, <2>1, <2>2, ReplaceTile
<1>12. \A k \in DOMAIN M : /\ M[k] \in RangeProofs /\ M[k].start = k
                           /\ M[k].end \in Nat /\ k \in Nat /\ k < M[k].end
                           /\ M[k].proofs \in Seq(Proof)
                           /\ M[k] \in T0 /\ M[k] \notin F
                           /\ Len(M[k].proofs) < size
                           /\ M[k].end \notin DOMAIN M
  <2> SUFFICES ASSUME NEW k \in DOMAIN M
               PROVE  /\ M[k] \in RangeProofs /\ M[k].start = k
                      /\ M[k].end \in Nat /\ k \in Nat /\ k < M[k].end
                      /\ M[k].proofs \in Seq(Proof)
                      /\ M[k] \in T0 /\ M[k] \notin F
                      /\ Len(M[k].proofs) < size
                      /\ M[k].end \notin DOMAIN M
    OBVIOUS
  <2>1. M[k] \in RangeProofs /\ M[k].start = k /\ M[k] \in T0 /\ M[k] \notin F
    BY Kinds DEF MapOK, Range
  <2>2. ItemOK(M[k], full, n)
    BY <1>11, <2>1 DEF Tiling
  <2>3. Len(M[k].proofs) < size /\ M[k].end \notin DOMAIN M
    BY DEF Settled
  <2> QED BY <2>1, <2>2, <2>3 DEF ItemOK, RangeProofs
<1>13. \A k, l \in DOMAIN M : M[k] = M[l] => k = l
  BY SMTT(30), <1>12
<1>14. /\ K \in RangeProofs /\ K.end = b.end
       /\ K.start = IF left = {} THEN b.start ELSE L
       /\ K.start \in Nat /\ K.start <= b.start
       /\ Tiling(T1 \cup {K}, full, n) /\ K \notin T1
       /\ K.proofs \in Seq(Proof) /\ Len(K.proofs) <= size
  <2>1. CASE left = {}
    <3>1. K = q /\ T1 = T0
      BY <2>1 DEF Range
    <3> HIDE DEF K, T0, T1
    <3>2. /\ b.start <= b.start /\ Len(q.proofs) <= size
          /\ q.proofs \in Seq(Proof)
      BY <1>2, <1>4, <1>5
    <3> QED BY <1>2, <1>5, <1>11, <2>1, <3>1, <3>2, Zenon
  <2>2. CASE left # {}
    <3> DEFINE m == M[L]
    <3>1. L \in DOMAIN M /\ left = {L} /\ m.end = b.start
      BY <1>6, <1>7, <2>2
    <3>2. /\ m \in RangeProofs /\ m.start = L /\ L \in Nat /\ L < b.start
          /\ m.proofs \in Seq(Proof) /\ Len(m.proofs) < size /\ m \in T0
      BY <1>12, <3>1
    <3>3. T0 = T1 \cup {m} /\ m \notin T1
      BY <1>12, <1>13, <3>1 DEF Range
    <3>4. K = Concat(m, q)
      BY <2>2
    <3> HIDE DEF m, K, T0, T1
    <3>5. Tiling(T1 \cup {m, q}, full, n) /\ q \notin T1
      <4>1. T0 \cup {q} = T1 \cup {m, q}
        BY <3>3
      <4> QED BY <1>11, <3>3, <4>1
    <3>6. /\ K \in RangeProofs /\ K \notin T1
          /\ K.start = m.start /\ K.end = q.end
          /\ K.proofs = m.proofs \o q.proofs
          /\ Tiling(T1 \cup {K}, full, n)
      <4>1. m \in RangeProofs /\ q \in RangeProofs /\ m.end = q.start
        BY <1>5, <3>1, <3>2
      <4>2. Merged(T1, m, q, full, n)
        BY <3>3, <3>5, <4>1, MergeConcat
      <4> QED BY <3>4, <4>2 DEF Merged
    <3>7. K.proofs \in Seq(Proof) /\ Len(K.proofs) <= size
      <4> DEFINE s == m.proofs
      <4>1. s \in Seq(Proof) /\ Len(s) < size /\ K.proofs = s \o <<p.proof>>
        BY <1>5, <3>2, <3>6
      <4> HIDE DEF s
      <4>2. Len(s \o <<p.proof>>) = Len(s) + 1 /\ Len(s) \in Nat
        BY <1>4, <4>1
      <4>3. s \o <<p.proof>> \in Seq(Proof)
        BY <1>4, <4>1
      <4> QED BY <4>1, <4>2, <4>3
    <3>8. L <= b.start
      BY SMTT(30), <1>2, <3>2
    <3> QED BY <1>5, <2>2, <3>2, <3>6, <3>7, <3>8, Zenon
  <2> QED BY <2>1, <2>2
<1> HIDE DEF K
<1>15. /\ J \in RangeProofs /\ J.start = K.start
       /\ J.end = IF right = {} THEN b.end ELSE M[b.end].end
       /\ Tiling(T \cup {J}, full, n) /\ J \notin T
       /\ Len(J.proofs) < 2 * size
  <2>1. Len(K.proofs) \in Nat
    BY <1>14
  <2>2. CASE right = {}
    <3>1. J = K /\ T = T1
      BY SMTT(30), <1>8, <2>2
    <3>2. Len(K.proofs) < 2 * size
      BY <1>14, <2>1
    <3> HIDE DEF J, T, T1
    <3> QED BY <1>14, <2>2, <3>1, <3>2, Zenon
  <2>3. CASE right # {}
    <3> DEFINE m == M[b.end]
    <3>1. b.end \in DOMAIN M /\ right = {b.end}
      BY <1>6, <2>3
    <3>2. /\ m \in RangeProofs /\ m.start = b.end
          /\ m.proofs \in Seq(Proof) /\ Len(m.proofs) < size
      BY <1>12, <3>1
    <3>3. T1 = T \cup {m} /\ m \notin T
      <4>1. b.end \notin left
        BY <1>2, <1>6, <1>12, <3>1
      <4> QED BY <1>8, <1>12, <1>13, <3>1, <4>1
    <3>4. J = Concat(K, m)
      BY <2>3
    <3> HIDE DEF m, J, T, T1
    <3>5. Tiling(T \cup {K, m}, full, n) /\ K \notin T
      <4>1. T1 \cup {K} = T \cup {K, m}
        BY <3>3
      <4> QED BY Zenon, <1>14, <3>3, <4>1
    <3>6. /\ J \in RangeProofs /\ J \notin T
          /\ J.start = K.start /\ J.end = m.end
          /\ J.proofs = K.proofs \o m.proofs
          /\ Tiling(T \cup {J}, full, n)
      <4>1. K \in RangeProofs /\ m \in RangeProofs /\ K.end = m.start
        BY <1>14, <3>2
      <4>2. Merged(T, K, m, full, n)
        BY <3>3, <3>5, <4>1, MergeConcat
      <4> QED BY <3>4, <4>2 DEF Merged
    <3>7. Len(J.proofs) < 2 * size
      <4> DEFINE s == m.proofs
                 u == K.proofs
      <4>1. /\ s \in Seq(Proof) /\ Len(s) < size /\ J.proofs = u \o s
            /\ u \in Seq(Proof) /\ Len(u) <= size
        BY <1>14, <3>2, <3>6
      <4> HIDE DEF s, u
      <4>2. Len(u \o s) = Len(u) + Len(s) /\ Len(s) \in Nat /\ Len(u) \in Nat
        BY <4>1
      <4> QED BY <4>1, <4>2
    <3> QED BY Zenon, <2>3, <3>6, <3>7 DEF m
  <2> QED BY <2>2, <2>3
<1> HIDE DEF J
<1>16. /\ MapOK(R)
       /\ \A k \in DOMAIN R : k \in DOMAIN M /\ R[k] = M[k]
  BY <1>8 DEF MapOK
<1>17. J.start \notin DOMAIN R
  <2> SUFFICES ASSUME J.start \in DOMAIN R PROVE FALSE
    OBVIOUS
  <2> DEFINE t == R[J.start]
  <2>1. t \in T /\ t.start = J.start
    BY <1>16 DEF MapOK, Range
  <2> HIDE DEF t, T
  <2>2. ItemOK(t, full, n) /\ ItemOK(J, full, n) /\ Beside(t, J)
    BY <1>15, <2>1 DEF Tiling
  <2>3. /\ t.start \in Nat /\ t.end \in Nat /\ t.start < t.end
        /\ J.start \in Nat /\ J.end \in Nat /\ J.start < J.end
    BY <2>2 DEF ItemOK
  <2> QED BY <2>1, <2>2, <2>3 DEF Beside
<1>18. J.end \notin DOMAIN R
  BY <1>6, <1>8, <1>12, <1>15
<1>19. \A k \in DOMAIN R : R[k].end # J.start
  <2>1. CASE left = {}
    BY <1>6, <1>8, <1>14, <1>15, <2>1
  <2>2. CASE left # {}
    <3>1. J.start \in DOMAIN M
      BY <1>6, <1>7, <1>14, <1>15, <2>2
    <3> QED BY SMTT(30), <1>12, <1>16, <3>1
  <2> QED BY SMTT(30), <2>1, <2>2
<1>20. Joined(F, M, b, J, R, full, n)
  BY <1>15, <1>16, <1>17, <1>18, <1>19 DEF Joined
<1> QED
  BY Zenon, <1>5, <1>9, <1>15, <1>20 DEF p, R, left, right

\* An item that is inserted in the tree.
LEMMA StoreOK ==
  ASSUME NEW F, NEW M, NEW b, NEW J, NEW R,
         NEW full \in Nat, NEW n \in Nat, NEW size \in Nat,
         Good(F, M, full, n, size), Joined(F, M, b, J, R, full, n),
         Len(J.proofs) < size, ~(J.start = 0 /\ J.end = full)
  PROVE  Good(F \ {b}, Insert(R, J), full, n, size)
<1> DEFINE T == (F \ {b}) \cup Range(R)
           N == Insert(R, J)
<1>1. /\ J \in RangeProofs /\ Tiling(T \cup {J}, full, n) /\ MapOK(R)
      /\ \A k \in DOMAIN R : k \in DOMAIN M /\ R[k] = M[k]
      /\ J.start \notin DOMAIN R /\ J.end \notin DOMAIN R
      /\ \A k \in DOMAIN R : R[k].end # J.start
  BY DEF Joined
<1>2. /\ DOMAIN N = DOMAIN R \cup {J.start}
      /\ \A k \in DOMAIN R : N[k] = R[k]
      /\ N[J.start] = J
      /\ Range(N) = Range(R) \cup {J}
  BY Zenon, <1>1, RangeInsert
<1>3. J.start \in Nat /\ J.end \in Nat /\ J.start < J.end
  BY <1>1 DEF Tiling, ItemOK
<1> HIDE DEF N
<1>4. MapOK(N)
  BY <1>1, <1>2, <1>3 DEF MapOK
<1>5. Tiling((F \ {b}) \cup Range(N), full, n)
  <2>1. (F \ {b}) \cup Range(N) = T \cup {J}
    BY <1>2
  <2> QED BY Zenon, <1>1, <2>1
<1>6. Settled(N, full, size)
  <2>1. \A k \in DOMAIN R : /\ Len(R[k].proofs) < size
                            /\ ~(k = 0 /\ R[k].end = full)
                            /\ R[k].end \notin DOMAIN R
    BY <1>1 DEF Good, Settled
  <2>2. ASSUME NEW k \in DOMAIN R
        PROVE  /\ Len(N[k].proofs) < size /\ ~(k = 0 /\ N[k].end = full)
               /\ N[k].end \notin DOMAIN N
    BY <1>1, <1>2, <2>1
  <2>3. /\ Len(J.proofs) < size /\ J.end \notin DOMAIN N
    BY <1>1, <1>2, <1>3
  <2> QED BY <1>2, <2>2, <2>3 DEF Settled
<1>7. FlightOK(F \ {b}, full, size) /\ F \ {b} \subseteq Batch
  BY DEF Good, FlightOK
<1> QED
  BY <1>4, <1>5, <1>6, <1>7 DEF Good, N

\* into_witness
LEMMA WitnessOK ==
  ASSUME NEW r \in RangeProofs, NEW full \in Nat
  PROVE  LET w == Witness(r, full)
         IN  /\ w \in Batch /\ w.start = r.start /\ w.end = r.end
             /\ w.proofs = r.proofs /\ Lo(w) = Lo(r) /\ Hi(w) = Hi(r)
             /\ w.is_complete <=> (w.start = 0 /\ w.end = full)
             /\ \A n : ItemOK(r, full, n) => ItemOK(w, full, n)
<1> DEFINE w == Witness(r, full)
<1>1. r.start \in Nat /\ r.end \in Nat /\ r.proofs \in Seq(Proof)
  BY DEF RangeProofs
<1>2. /\ w.start = r.start /\ w.end = r.end /\ w.proofs = r.proofs
      /\ w.is_complete = (r.start = 0 /\ r.end = full)
  BY DEF Witness
<1>3. w \in Batch
  BY <1>1 DEF Witness, Batch
<1> HIDE DEF w
<1>4. Lo(w) = Lo(r) /\ Hi(w) = Hi(r)
  BY <1>2 DEF Lo, Hi
<1>5. \A n : ItemOK(r, full, n) => ItemOK(w, full, n)
  BY <1>2, <1>4 DEF ItemOK
<1> QED
  BY ZenonT(40), <1>2, <1>3, <1>4, <1>5 DEF w

\* An item that is handed out whole.
LEMMA HandOutOK ==
  ASSUME NEW F, NEW M, NEW b, NEW J, NEW R,
         NEW full \in Nat, NEW n \in Nat, NEW size \in Nat,
         Good(F, M, full, n, size), Joined(F, M, b, J, R, full, n),
         Len(J.proofs) <= size
  PROVE  Good((F \ {b}) \cup {Witness(J, full)}, R, full, n, size)
<1> DEFINE T == (F \ {b}) \cup Range(R)
           w == Witness(J, full)
           G == (F \ {b}) \cup {w}
<1>1. /\ J \in RangeProofs /\ Tiling(T \cup {J}, full, n) /\ MapOK(R)
      /\ \A k \in DOMAIN R : k \in DOMAIN M /\ R[k] = M[k]
      /\ J \notin T
  BY DEF Joined
<1>2. ItemOK(J, full, n)
  BY SMTT(30), <1>1 DEF Tiling
<1>3. /\ w \in Batch /\ w.start = J.start /\ w.end = J.end
      /\ w.proofs = J.proofs /\ Lo(w) = Lo(J) /\ Hi(w) = Hi(J)
      /\ w.is_complete <=> (w.start = 0 /\ w.end = full)
      /\ ItemOK(w, full, n)
  BY SMTT(30), <1>1, <1>2, WitnessOK
<1> HIDE DEF w
<1>4. Tiling(G \cup Range(R), full, n)
  <2>1. G \cup Range(R) = T \cup {w}
    OBVIOUS
  <2> HIDE DEF T, G
  <2> QED BY <1>1, <1>3, <2>1, ReplaceTile
<1>5. Settled(R, full, size)
  BY <1>1 DEF Good, Settled
<1>6. FlightOK(G, full, size) /\ G \subseteq Batch
  <2>1. w \in Batch /\ Len(w.proofs) <= size
    BY <1>3
  <2>2. F \subseteq Batch /\ FlightOK(F, full, size)
    BY DEF Good
  <2> QED BY <1>3, <2>1, <2>2 DEF FlightOK
<1> QED
  BY <1>1, <1>4, <1>5, <1>6 DEF Good, w

\* An item that is too long: the front goes out, the rest stays.
LEMMA SplitHandOutOK ==
  ASSUME NEW F, NEW M, NEW b, NEW J, NEW R,
         NEW full \in Nat, NEW n \in Nat, NEW size \in Nat, size > 1,
         Good(F, M, full, n, size), Joined(F, M, b, J, R, full, n),
         size < Len(J.proofs), Len(J.proofs) < 2 * size
  PROVE  Good((F \ {b}) \cup {Witness(Keep(J, size), full)},
              Insert(R, Remainder(J, size)), full, n, size)
<1> DEFINE T == (F \ {b}) \cup Range(R)
           a == Keep(J, size)
           c == Remainder(J, size)
           w == Witness(a, full)
           G == (F \ {b}) \cup {w}
           N == Insert(R, c)
<1>1. /\ J \in RangeProofs /\ Tiling(T \cup {J}, full, n) /\ MapOK(R)
      /\ \A k \in DOMAIN R : k \in DOMAIN M /\ R[k] = M[k]
      /\ J.end \notin DOMAIN R /\ J \notin T
  BY DEF Joined
<1>2. ItemOK(J, full, n) /\ Len(J.proofs) \in Nat
  BY <1>1 DEF Tiling, RangeProofs
<1>3. /\ ItemOK(a, full, n) /\ ItemOK(c, full, n)
      /\ a.start = J.start /\ c.end = J.end /\ a.end = c.start
      /\ Lo(a) = Lo(J) /\ Hi(c) = Hi(J) /\ Hi(a) = Lo(c)
      /\ Len(a.proofs) = size /\ Len(c.proofs) = Len(J.proofs) - size
      /\ a.end < full
  BY <1>2, SplitOK
<1>4. a \in RangeProofs /\ c \in RangeProofs
  <2>1. J.proofs \in Seq(Proof) /\ J.start \in Nat /\ J.end \in Nat
    BY <1>1 DEF RangeProofs
  <2>2. SubSeq(J.proofs, 1, size) \in Seq(Proof)
    BY <1>2, <2>1
  <2>3. SubSeq(J.proofs, size + 1, Len(J.proofs)) \in Seq(Proof)
    BY <1>2, <2>1
  <2>4. EndPoint(J, size) \in Nat /\ ~(size >= Len(J.proofs))
    BY <1>2, <2>1 DEF EndPoint
  <2> QED BY <2>1, <2>2, <2>3, <2>4 DEF Keep, Remainder, RangeProofs
<1> HIDE DEF a, c, T
<1>5. /\ a.start \in Nat /\ a.end \in Nat /\ a.start < a.end
      /\ c.start \in Nat /\ c.end \in Nat /\ c.start < c.end
  BY <1>3 DEF ItemOK
<1>6. \A t \in T : /\ t.start \in Nat /\ t.end \in Nat /\ t.start < t.end
                   /\ t.end <= a.start \/ c.end <= t.start
  <2> SUFFICES ASSUME NEW t \in T
               PROVE  /\ t.start \in Nat /\ t.end \in Nat /\ t.start < t.end
                      /\ t.end <= a.start \/ c.end <= t.start
    OBVIOUS
  <2>1. ItemOK(t, full, n) /\ Beside(t, J)
    BY <1>1 DEF Tiling
  <2> QED BY <1>3, <2>1 DEF ItemOK, Beside
<1>7. a \notin T /\ c \notin T /\ a # c
  BY SMTT(30), <1>3, <1>5, <1>6
<1>8. Tiling(T \cup {a, c}, full, n)
  BY <1>1, <1>3, SplitTile
<1>9. /\ w \in Batch /\ w.start = a.start /\ w.end = a.end
      /\ w.proofs = a.proofs /\ Lo(w) = Lo(a) /\ Hi(w) = Hi(a)
      /\ w.is_complete <=> (w.start = 0 /\ w.end = full)
      /\ ItemOK(w, full, n)
  BY <1>3, <1>4, WitnessOK
<1> HIDE DEF w
<1>10. Tiling((T \cup {c}) \cup {w}, full, n)
  <2>1. (T \cup {c}) \cup {a} = T \cup {a, c} /\ a \notin T \cup {c}
    BY SMTT(30), <1>7
  <2> QED BY Zenon, <1>8, <1>9, <2>1, ReplaceTile
<1>11. /\ c.start \notin DOMAIN R /\ \A k \in DOMAIN R : R[k].end # c.start
  <2>1. \A k \in DOMAIN R : R[k] \in T /\ R[k].start = k
    BY <1>1 DEF MapOK, Range, T
  <2> QED BY SMTT(30), <1>3, <1>5, <1>6, <2>1
<1>12. /\ DOMAIN N = DOMAIN R \cup {c.start}
       /\ \A k \in DOMAIN R : N[k] = R[k]
       /\ N[c.start] = c
       /\ Range(N) = Range(R) \cup {c}
  BY Zenon, <1>11, RangeInsert
<1> HIDE DEF N
<1>13. MapOK(N)
  BY <1>1, <1>4, <1>5, <1>12 DEF MapOK
<1>14. Tiling(G \cup Range(N), full, n)
  <2>1. G \cup Range(N) = (T \cup {c}) \cup {w}
    BY <1>12 DEF T
  <2> QED BY Zenon, <1>10, <2>1
<1>15. Settled(N, full, size)
  <2>1. \A k \in DOMAIN R : /\ Len(R[k].proofs) < size
                            /\ ~(k = 0 /\ R[k].end = full)
                            /\ R[k].end \notin DOMAIN R
    BY <1>1 DEF Good, Settled
  <2>2. ASSUME NEW k \in DOMAIN R
        PROVE  /\ Len(N[k].proofs) < size /\ ~(k = 0 /\ N[k].end = full)
               /\ N[k].end \notin DOMAIN N
    BY SMTT(30), <1>11, <1>12, <2>1
  <2>3. /\ Len(c.proofs) < size /\ c.end \notin DOMAIN N /\ c.start # 0
    BY <1>1, <1>2, <1>3, <1>5, <1>12
  <2> QED BY <1>12, <2>2, <2>3 DEF Settled
<1>16. FlightOK(G, full, size) /\ G \subseteq Batch
  <2>1. w \in Batch /\ Len(w.proofs) <= size
    BY <1>3, <1>9
  <2>2. F \subseteq Batch /\ FlightOK(F, full, size)
    BY DEF Good
  <2> QED BY <1>9, <2>1, <2>2 DEF FlightOK
<1> QED
  BY <1>13, <1>14, <1>15, <1>16 DEF Good, w, N, a, c

\* The body of the loop of reduce_proofs preserves the invariant.
LEMMA AddToTreeOK ==
  ASSUME NEW F, NEW M, NEW b \in F,
         NEW full \in Nat, NEW n \in Nat, NEW size \in Nat, size > 1,
         Good(F, M, full, n, size), ~(b.start = 0 /\ b.end = full)
  PROVE  LET add == AddToTree(M, F \ {b}, RecursionProof(b), full, size)
         IN  Good(add[2], add[1], full, n, size)
<1> DEFINE p    == RecursionProof(b)
           J    == Join(M, p)
           R    == Detach(M, p)
           alone == LeftSibling(M, p) \cup RightSibling(M, p) = {}
           add  == AddToTree(M, F \ {b}, p, full, size)
<1>1. /\ Joined(F, M, b, J, R, full, n)
      /\ alone => Len(J.proofs) = 1
      /\ Len(J.proofs) < 2 * size
  BY Zenon, JoinOK DEF Good
<1>2. Len(J.proofs) \in Nat
  BY <1>1 DEF Joined, RangeProofs
<1>3. p.start = b.start /\ p.end = b.end
  BY DEF RecursionProof
<1>4. CASE alone
  <2>1. J.start = b.start /\ J.end = b.end
    BY <1>3, <1>4 DEF Join
  <2>2. Insert(M, J) = Insert(R, J)
    <3>1. DOMAIN R = DOMAIN M /\ \A k \in DOMAIN M : R[k] = M[k]
      BY <1>4, RangeRestrict DEF Detach
    <3> HIDE DEF R, J
    <3> QED BY <3>1 DEF Insert
  <2>3. add = <<Insert(M, J), F \ {b}>>
    BY <1>4 DEF AddToTree
  <2> HIDE DEF J, R, add
  <2>4. Len(J.proofs) < size
    BY Zenon, <1>1, <1>4
  <2>5. Good(F \ {b}, Insert(R, J), full, n, size)
    BY <1>1, <2>1, <2>4, StoreOK
  <2> QED BY <2>2, <2>3, <2>5 DEF add, p
<1>5. CASE ~alone /\ size < Len(J.proofs)
  <2>1. Len(Keep(J, size).proofs) = size
    <3>1. ItemOK(J, full, n)
      BY <1>1 DEF Joined, Tiling
    <3> HIDE DEF J
    <3> QED BY SMTT(30), <1>5, <3>1, SplitOK
  <2>2. add = <<Insert(R, Remainder(J, size)),
               (F \ {b}) \cup {Witness(Keep(J, size), full)}>>
    BY <1>5, <2>1 DEF AddToTree
  <2> HIDE DEF J, R, add
  <2>3. Good((F \ {b}) \cup {Witness(Keep(J, size), full)},
             Insert(R, Remainder(J, size)), full, n, size)
    BY <1>1, <1>5, SplitHandOutOK
  <2> QED BY <2>2, <2>3 DEF add, p
<1>6. CASE ~alone /\ ~(size < Len(J.proofs))
  <2> DEFINE ready == Len(J.proofs) = size \/ (J.start = 0 /\ J.end = full)
  <2>1. Keep(J, size) = J
    BY <1>2, <1>6 DEF Keep
  <2>2. add = IF ready THEN <<R, (F \ {b}) \cup {Witness(J, full)}>>
              ELSE <<Insert(R, J), F \ {b}>>
    BY <1>6, <2>1 DEF AddToTree
  <2> HIDE DEF J, R, add
  <2>3. CASE ready
    <3>1. Len(J.proofs) <= size
      BY <1>2, <1>6
    <3>2. Good((F \ {b}) \cup {Witness(J, full)}, R, full, n, size)
      BY <1>1, <3>1, HandOutOK
    <3>3. add = <<R, (F \ {b}) \cup {Witness(J, full)}>>
      BY <2>2, <2>3
    <3> QED BY <3>2, <3>3 DEF add, p
  <2>4. CASE ~ready
    <3>1. Len(J.proofs) < size /\ ~(J.start = 0 /\ J.end = full)
      BY <1>2, <1>6, <2>4
    <3>2. Good(F \ {b}, Insert(R, J), full, n, size)
      BY <1>1, <3>1, StoreOK
    <3>3. add = <<Insert(R, J), F \ {b}>>
      BY <2>2, <2>4
    <3> QED BY <3>2, <3>3 DEF add, p
  <2> QED BY <2>3, <2>4
<1> QED
  BY <1>4, <1>5, <1>6

-----------------------------------------------------------------------------
(* The theorems. *)

\* The first-layer inputs tile their range.
LEMMA InitOK == Init => IInv
<1> SUFFICES ASSUME Init PROVE IInv
  OBVIOUS
<1> USE MaxInputsAssumption, BatchSizesAssumption DEF Init
<1>1. /\ inputs \in Nat /\ inputs > 0 /\ full_range = inputs
      /\ reduce_batch_size \in Nat /\ reduce_batch_size > 1
      /\ map = <<>> /\ status = "reducing" /\ result = <<>>
      /\ flight = FirstLayer(inputs)
  OBVIOUS
<1>2. DOMAIN map = {} /\ Range(map) = {}
  BY <1>1 DEF Range
<1> DEFINE f(i) ==
             [start |-> i, end |-> i + 1,
              proofs |-> <<[lo |-> i, hi |-> i + 1, is_complete |-> FALSE]>>,
              is_complete |-> inputs = 1]
<1>3. \A b \in flight : \E i \in 0..(inputs - 1) : b = f(i)
  BY <1>1 DEF FirstLayer
<1>4. \A b \in flight : /\ b \in Batch /\ Len(b.proofs) = 1
                        /\ Lo(b) = b.start /\ Hi(b) = b.end
                        /\ ItemOK(b, full_range, inputs)
                        /\ b.is_complete <=> (b.start = 0 /\ b.end = full_range)
  <2> SUFFICES ASSUME NEW b \in flight
               PROVE  /\ b \in Batch /\ Len(b.proofs) = 1
                      /\ Lo(b) = b.start /\ Hi(b) = b.end
                      /\ ItemOK(b, full_range, inputs)
                      /\ b.is_complete <=> (b.start = 0 /\ b.end = full_range)
    OBVIOUS
  <2>1. PICK i \in 0..(inputs - 1) : b = f(i)
    BY <1>3
  <2>2. /\ b.start = i /\ b.end = i + 1 /\ b.is_complete = (inputs = 1)
        /\ b.proofs = <<[lo |-> i, hi |-> i + 1, is_complete |-> FALSE]>>
    BY Zenon, <2>1
  <2> DEFINE q == b.proofs
  <2>3. q \in Seq(Proof) /\ Len(q) = 1 /\ q[1].lo = i /\ q[1].hi = i + 1
    BY <1>1, <2>2 DEF Proof
  <2>4. b \in Batch
    <3>1. i \in Nat /\ i + 1 \in Nat
      BY <1>1
    <3> QED BY <2>1, <2>3, <3>1 DEF Batch
  <2>5. Lo(b) = i /\ Hi(b) = i + 1
    BY <2>3 DEF Lo, Hi
  <2> HIDE DEF q
  <2>6. Queue(q, inputs)
    BY <1>1, <2>3 DEF Queue, Chain
  <2>7. ItemOK(b, full_range, inputs)
    <3>1. /\ b.start \in Nat /\ b.end \in Nat /\ b.start < b.end
          /\ b.end <= full_range /\ Len(q) <= b.end - b.start
      BY <1>1, <2>2, <2>3
    <3> QED BY <1>1, <2>2, <2>5, <2>6, <3>1 DEF ItemOK, q
  <2>8. b.is_complete <=> (b.start = 0 /\ b.end = full_range)
    <3>1. (inputs = 1) <=> (b.start = 0 /\ b.end = full_range)
      BY <1>1, <2>2
    <3> QED BY <2>2, <3>1, Zenon
  <2> QED BY <2>2, <2>3, <2>4, <2>5, <2>7, <2>8 DEF q
<1>5. Tiling(flight, full_range, inputs)
  <2>1. \A r, s \in flight : r # s => Beside(r, s)
    <3> SUFFICES ASSUME NEW r \in flight, NEW s \in flight, r # s
                 PROVE  Beside(r, s)
      OBVIOUS
    <3>1. /\ r.start \in Nat /\ r.end = r.start + 1
          /\ s.start \in Nat /\ s.end = s.start + 1 /\ r.start # s.start
      <4>1. PICK i \in 0..(inputs - 1) : r = f(i)
        BY <1>3
      <4>2. PICK j \in 0..(inputs - 1) : s = f(j)
        BY <1>3
      <4>3. i \in Nat /\ j \in Nat /\ i # j
        <5>1. i # j
          <6> HIDE DEF f
          <6> QED BY <4>1, <4>2
        <5> QED BY <1>1, <5>1
      <4> QED BY <4>1, <4>2, <4>3
    <3> QED BY <1>4, <3>1 DEF Beside
  <2>2. \A x \in 0..(full_range - 1) : \E r \in flight : Within(x, r)
    <3> SUFFICES ASSUME NEW x \in 0..(full_range - 1)
                 PROVE  \E r \in flight : Within(x, r)
      OBVIOUS
    <3> DEFINE r == [start |-> x, end |-> x + 1,
                     proofs |-> <<[lo |-> x, hi |-> x + 1, is_complete |-> FALSE]>>,
                     is_complete |-> inputs = 1]
    <3>1. r \in flight
      BY Zenon, <1>1 DEF FirstLayer
    <3>2. Within(x, r)
      BY <1>1 DEF Within
    <3> QED BY <3>1, <3>2
  <2> QED BY <1>4, <2>1, <2>2 DEF Tiling
<1>6. Good(flight, map, full_range, inputs, reduce_batch_size)
  <2>1. flight \subseteq Batch /\ Tiling(flight \cup Range(map), full_range, inputs)
    BY Zenon, <1>2, <1>4, <1>5
  <2>2. FlightOK(flight, full_range, reduce_batch_size)
    BY <1>1, <1>4 DEF FlightOK
  <2>3. MapOK(map) /\ Settled(map, full_range, reduce_batch_size)
    BY <1>2 DEF MapOK, Settled
  <2> QED BY <2>1, <2>2, <2>3 DEF Good
<1>7. TypeOK
  BY <1>1, <1>2, <1>6 DEF TypeOK, Good, MapOK
<1> QED
  BY <1>1, <1>6, <1>7 DEF IInv, ReturnsFullProof

\* The invariant gives the leaves a batch with the full label covers.
LEMMA FullLabel ==
  ASSUME IInv, status = "reducing", NEW b \in flight
  PROVE  /\ b \in Batch /\ ItemOK(b, full_range, inputs)
         /\ inputs \in Nat /\ full_range \in Nat
         /\ b.is_complete <=> (b.start = 0 /\ b.end = full_range)
         /\ b.is_complete <=> (Lo(b) = 0 /\ Hi(b) = inputs)
         /\ Len(b.proofs) <= reduce_batch_size
<1>1. Good(flight, map, full_range, inputs, reduce_batch_size)
  BY DEF IInv
<1>2. /\ b \in Batch /\ ItemOK(b, full_range, inputs)
      /\ b.is_complete <=> (b.start = 0 /\ b.end = full_range)
      /\ Len(b.proofs) <= reduce_batch_size
  BY <1>1 DEF Good, Tiling, FlightOK
<1>3. inputs \in Nat /\ full_range \in Nat
  BY DEF IInv, TypeOK
<1>4. b.is_complete <=> (Lo(b) = 0 /\ Hi(b) = inputs)
  BY <1>2 DEF ItemOK
<1> QED
  BY <1>2, <1>3, <1>4

\* Receiving a proof that is not complete.
LEMMA ReceiveOK ==
  ASSUME IInv, NEW b \in flight, Receive(b)
  PROVE  IInv'
<1>1. /\ status = "reducing" /\ ~(b.start = 0 /\ b.end = full_range)
      /\ UNCHANGED <<inputs, full_range, reduce_batch_size, status, result>>
  BY DEF Receive, RecursionProof
<1>2. /\ full_range \in Nat /\ inputs \in Nat /\ reduce_batch_size \in Nat
      /\ reduce_batch_size > 1
      /\ Good(flight, map, full_range, inputs, reduce_batch_size)
  BY <1>1 DEF IInv, TypeOK
<1>3. Good(flight', map', full_range, inputs, reduce_batch_size)
  <2> DEFINE add == AddToTree(map, flight \ {b}, RecursionProof(b),
                              full_range, reduce_batch_size)
  <2>1. map' = add[1] /\ flight' = add[2]
    BY DEF Receive
  <2>2. Good(add[2], add[1], full_range, inputs, reduce_batch_size)
    BY <1>1, <1>2, AddToTreeOK
  <2> HIDE DEF add
  <2> QED BY <2>1, <2>2
<1>4. TypeOK'
  BY <1>1, <1>3 DEF IInv, TypeOK, Good, MapOK
<1> QED
  BY <1>1, <1>2, <1>3, <1>4 DEF IInv, ReturnsFullProof

\* Receiving a proof with the full label.
LEMMA ReturnOK ==
  ASSUME IInv, NEW b \in flight, Return(b)
  PROVE  IInv'
<1> DEFINE p == RecursionProof(b)
           w == [start |-> 0, end |-> 1, proofs |-> <<p.proof>>,
                 is_complete |-> p.proof.is_complete]
           half == reduce_batch_size \div 2
<1>1. /\ status = "reducing" /\ b.start = 0 /\ b.end = full_range
      /\ inputs' = inputs /\ result' = <<p.proof>>
  BY DEF Return, RecursionProof
<1>2. /\ full_range \in Nat /\ full_range > 0 /\ inputs \in Nat /\ inputs > 0
      /\ reduce_batch_size \in Nat /\ reduce_batch_size > 1
      /\ Good(flight, map, full_range, inputs, reduce_batch_size)
      /\ flight \subseteq Batch
  BY <1>1 DEF IInv, TypeOK
<1>3. /\ b \in Batch /\ ItemOK(b, full_range, inputs)
      /\ b.is_complete /\ Lo(b) = 0 /\ Hi(b) = inputs
  BY <1>1, FullLabel
<1>4. p.proof = [lo |-> 0, hi |-> inputs, is_complete |-> TRUE]
  <2>1. b.is_complete = TRUE
    BY <1>3 DEF Batch
  <2> QED BY <1>3, <2>1 DEF RecursionProof
<1>5. p.proof \in Proof /\ <<p.proof>> \in Seq(Proof)
  BY <1>2, <1>4 DEF Proof
<1>6. ReturnsFullProof'
  BY <1>1, <1>4 DEF ReturnsFullProof
<1>7. CASE reduce_batch_size = 2
  <2>1. /\ status' = "done" /\ flight' = flight \ {b}
        /\ UNCHANGED <<full_range, reduce_batch_size, map>>
    BY <1>7 DEF Return
  <2>2. TypeOK'
    BY <1>1, <1>5, <2>1 DEF IInv, TypeOK
  <2> QED BY <1>6, <2>1, <2>2 DEF IInv
<1>8. CASE reduce_batch_size # 2
  <2>1. flight \ {b} = {}
    <3> SUFFICES ASSUME NEW r \in flight, r # b PROVE FALSE
      OBVIOUS
    <3>1. Beside(r, b) /\ ItemOK(r, full_range, inputs)
      BY <1>2 DEF Good, Tiling
    <3>2. /\ r.start \in Nat /\ r.end \in Nat
          /\ r.start < r.end /\ r.end <= full_range
      BY <3>1 DEF ItemOK
    <3> QED BY <1>1, <1>2, <3>1, <3>2 DEF Beside
  <2>2. /\ status' = IF half > 1 THEN "reducing" ELSE "panic"
        /\ full_range' = 1 /\ reduce_batch_size' = half
        /\ flight' = {w} /\ map' = <<>>
    BY <1>8, <2>1 DEF Return
  <2>3. half \in Nat /\ half > 0
    BY SMTT(30), <1>2
  <2>4. /\ w.start = 0 /\ w.end = 1 /\ w.is_complete = TRUE
        /\ w.proofs = <<p.proof>> /\ w \in Batch
    <3>1. p.proof.is_complete = TRUE
      BY <1>4
    <3> HIDE DEF p
    <3>2. w = [start |-> 0, end |-> 1, proofs |-> <<p.proof>>,
               is_complete |-> TRUE]
      BY Zenon, <3>1
    <3> HIDE DEF w
    <3> QED BY <1>5, <3>2 DEF Batch
  <2> HIDE DEF w, p, half
  <2>5. Queue(w.proofs, inputs) /\ Len(w.proofs) = 1
    BY <1>2, <1>4, <1>5, <2>4 DEF Queue, Chain
  <2>6. Lo(w) = 0 /\ Hi(w) = inputs
    BY <1>4, <2>4, <2>5 DEF Lo, Hi
  <2>7. ItemOK(w, 1, inputs)
    BY <2>4, <2>5, <2>6 DEF ItemOK
  <2>8. DOMAIN map' = {} /\ Range(map') = {}
    BY <2>2 DEF Range
  <2>9. Tiling(flight' \cup Range(map'), 1, inputs)
    <3>1. flight' \cup Range(map') = {w}
      BY <2>2, <2>8
    <3>2. \A x \in 0..(1 - 1) : Within(x, w)
      BY <2>4 DEF Within
    <3> QED BY <2>7, <3>1, <3>2 DEF Tiling
  <2>10. MapOK(map') /\ Settled(map', 1, half)
    BY <2>8 DEF MapOK, Settled
  <2>11. half > 1 => FlightOK(flight', 1, half)
    <3>1. w.is_complete <=> (w.start = 0 /\ w.end = 1)
      BY <2>4
    <3>2. half > 1 => Len(w.proofs) <= half
      BY <2>3, <2>5
    <3> QED BY Zenon, <2>2, <2>4, <3>1, <3>2 DEF FlightOK
  <2>12. half > 1 => Good(flight', map', 1, inputs, half)
    BY <2>2, <2>4, <2>9, <2>10, <2>11 DEF Good
  <2>13. TypeOK'
    BY <1>1, <1>2, <1>5, <2>2, <2>3, <2>4, <2>8 DEF TypeOK
  <2> QED BY <1>1, <1>6, <2>2, <2>12, <2>13 DEF IInv
<1> QED
  BY <1>7, <1>8

\* Every step of compress preserves the invariant.
LEMMA NextOK == IInv /\ [Next]_vars => IInv'
<1> SUFFICES ASSUME IInv, [Next]_vars PROVE IInv'
  OBVIOUS
<1>1. CASE \E b \in flight : Receive(b)
  BY <1>1, ReceiveOK
<1>2. CASE \E b \in flight : Return(b)
  BY <1>2, ReturnOK
<1>3. CASE UNCHANGED vars
  BY <1>3 DEF vars, IInv, TypeOK, ReturnsFullProof
<1> QED
  BY <1>1, <1>2, <1>3 DEF Next, Returned

LEMMA Invariance == Spec => []IInv
<1>1. Init => IInv
  BY InitOK
<1>2. IInv /\ [Next]_vars => IInv'
  BY NextOK
<1> QED
  BY <1>1, <1>2, PTL DEF Spec

\* Each field of the tree and each local of compress keeps its type.
THEOREM TypeCorrect == Spec => []TypeOK
<1>1. IInv => TypeOK
  BY DEF IInv
<1> QED
  BY <1>1, Invariance, PTL

\* Whatever order proofs come back in, and wherever split_off cuts a range,
\* the compose program of every batch is given proofs that follow on from one
\* another, and no more than its arity.
THEOREM AlwaysComposable == Spec => []Composable
<1>1. IInv => Composable
  <2> SUFFICES ASSUME IInv, status = "reducing", NEW b \in flight
               PROVE  /\ Len(b.proofs) \in 1..reduce_batch_size
                      /\ Chain(b.proofs)
    BY DEF Composable
  <2>1. Queue(b.proofs, inputs) /\ Len(b.proofs) <= reduce_batch_size
    BY FullLabel DEF ItemOK
  <2>2. reduce_batch_size \in Nat
    BY DEF IInv, TypeOK
  <2> QED BY <2>1, <2>2 DEF Queue
<1> QED
  BY <1>1, Invariance, PTL

\* into_witness, which looks at labels, sets is_complete exactly on a batch
\* that covers every first-layer input.
THEOREM CompletionExact == Spec => []CompletionFlagExact
<1>1. IInv => CompletionFlagExact
  BY FullLabel DEF CompletionFlagExact
<1> QED
  BY <1>1, Invariance, PTL

\* reduce_proofs never waits for a proof when none is on its way.
THEOREM Progress == Spec => []NeverStuck
<1>1. IInv => NeverStuck
  <2> SUFFICES ASSUME IInv, status = "reducing", flight = {} PROVE FALSE
    BY DEF NeverStuck
  <2>1. /\ full_range \in Nat /\ full_range > 0
        /\ Tiling(Range(map), full_range, inputs) /\ MapOK(map)
        /\ Settled(map, full_range, reduce_batch_size)
    BY DEF IInv, TypeOK, Good
  <2>2. \A x \in 0..(full_range - 1) : \E k \in DOMAIN map : Within(x, map[k])
    BY SMTT(30), <2>1 DEF Tiling, Range
  <2>3. \A k \in DOMAIN map :
          /\ k \in Nat /\ map[k].start = k /\ map[k].end \in Nat
          /\ k < map[k].end /\ map[k].end <= full_range
    BY <2>1 DEF Tiling, Range, MapOK, ItemOK
  <2>4. PICK k \in DOMAIN map : Within(0, map[k])
    BY <2>1, <2>2
  <2>5. k = 0 /\ map[k].end < full_range
    BY <2>1, <2>3, <2>4 DEF Within, Settled
  <2>6. PICK l \in DOMAIN map : Within(map[k].end, map[l])
    <3>1. map[k].end \in 0..(full_range - 1)
      BY <2>1, <2>3, <2>5
    <3> QED BY <2>2, <3>1
  <2>7. Beside(map[k], map[l])
    <3>1. map[k] # map[l]
      BY <2>3, <2>6 DEF Within
    <3> QED BY <2>1, <3>1 DEF Tiling, Range
  <2>8. l = map[k].end
    BY <2>3, <2>5, <2>6, <2>7 DEF Within, Beside
  <2> QED BY <2>1, <2>8 DEF Settled
<1> QED
  BY <1>1, Invariance, PTL

\* compress returns one proof that covers every input and is complete.
THEOREM ResultCorrect == Spec => []ReturnsFullProof
<1>1. IInv => ReturnsFullProof
  BY DEF IInv
<1> QED
  BY <1>1, Invariance, PTL
=============================================================================
