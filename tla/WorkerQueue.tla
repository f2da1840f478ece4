----------------------------- MODULE WorkerQueue -----------------------------
(***************************************************************************)
(* slop/crates/futures/src/queue.rs: a pool of workers, kept in a          *)
(* crossbeam ArrayQueue beside a tokio semaphore with one permit per       *)
(* worker. The two are separate objects: a caller first gets a permit and  *)
(* then unwraps a pop of the queue, and a worker that is dropped is first  *)
(* pushed back and its permit is released after that (a struct's fields    *)
(* are dropped after its Drop::drop). Callers run on several threads, so   *)
(* every one of these steps is an action.                                  *)
(*                                                                         *)
(* The semaphore is external: a permit that is released goes to the        *)
(* longest waiting caller if there is one, and a caller whose `pop` future *)
(* is dropped gives back a permit that it was granted.                     *)
(***************************************************************************)
EXTENDS Integers, Sequences, FiniteSets, SequencesExt

CONSTANTS Workers,   \* the workers `new` is given
          Callers,   \* tasks that use the queue
          NoWorker   \* what a caller without a guard has

ASSUME WorkersAssumption == IsFiniteSet(Workers) /\ Workers # {}

ASSUME CallersAssumption == IsFiniteSet(Callers)

ASSUME NoWorkerAssumption == NoWorker \notin Workers

VARIABLES
  queue,     \* WorkerQueue::queue
  permits,   \* permits of the semaphore that nobody holds
  waiters,   \* callers waiting in acquire_owned, in order
  pc,        \* what each caller is doing
  worker,    \* the worker each caller's guard holds
  panicked   \* whether an unwrap failed

vars == <<queue, permits, waiters, pc, worker, panicked>>

\* "idle":     outside of the queue
\* "waiting":  pop is waiting for a permit
\* "granted":  the semaphore assigned a permit, the future was not polled yet
\* "popping":  the permit is owned, queue.pop() is next
\* "working":  a Worker guard is held
\* "dropping": the worker was pushed back, the permit is still owned
States == {"idle", "waiting", "granted", "popping", "working", "dropping"}

\* WorkerQueue::new
Init ==
  /\ \E s \in SetToSeqs(Workers) : queue = s
  /\ permits = Cardinality(Workers)
  /\ waiters = <<>>
  /\ pc = [c \in Callers |-> "idle"]
  /\ worker = [c \in Callers |-> NoWorker]
  /\ panicked = FALSE

\* The semaphore takes a permit back from caller c, which goes to state `to`.
Release(c, to) ==
  IF waiters = <<>>
  THEN /\ permits' = permits + 1
       /\ pc' = [pc EXCEPT ![c] = to]
       /\ UNCHANGED waiters
  ELSE /\ pc' = [pc EXCEPT ![c] = to, ![Head(waiters)] = "granted"]
       /\ waiters' = Tail(waiters)
       /\ UNCHANGED permits

\* pop is polled for the first time: it gets a permit or waits in line.
Pop(c) ==
  /\ pc[c] = "idle"
  /\ IF permits > 0
     THEN /\ permits' = permits - 1
          /\ pc' = [pc EXCEPT ![c] = "popping"]
          /\ UNCHANGED waiters
     ELSE /\ pc' = [pc EXCEPT ![c] = "waiting"]
          /\ waiters' = Append(waiters, c)
          /\ UNCHANGED permits
  /\ UNCHANGED <<queue, worker, panicked>>

\* The future of a caller that was granted a permit is polled again.
Wake(c) ==
  /\ pc[c] = "granted"
  /\ pc' = [pc EXCEPT ![c] = "popping"]
  /\ UNCHANGED <<queue, permits, waiters, worker, panicked>>

\* The future of pop is dropped before it is ready.
Cancel(c) ==
  /\ \/ /\ pc[c] = "waiting"
        /\ pc' = [pc EXCEPT ![c] = "idle"]
        /\ \E i \in DOMAIN waiters :
             waiters[i] = c /\ waiters' = RemoveAt(waiters, i)
        /\ UNCHANGED permits
     \/ pc[c] = "granted" /\ Release(c, "idle")
  /\ UNCHANGED <<queue, worker, panicked>>

\* try_pop: like pop, but fails at once when there is no permit.
TryPop(c) ==
  /\ pc[c] = "idle"
  /\ permits > 0
  /\ permits' = permits - 1
  /\ pc' = [pc EXCEPT ![c] = "popping"]
  /\ UNCHANGED <<queue, waiters, worker, panicked>>

\* self.queue.pop().unwrap(), the end of pop and of try_pop.
TakeWorker(c) ==
  /\ pc[c] = "popping"
  /\ IF queue = <<>>
     THEN panicked' = TRUE /\ UNCHANGED <<queue, worker, pc>>
     ELSE /\ queue' = Tail(queue)
          /\ worker' = [worker EXCEPT ![c] = Head(queue)]
          /\ pc' = [pc EXCEPT ![c] = "working"]
          /\ UNCHANGED panicked
  /\ UNCHANGED <<permits, waiters>>

\* Mutant: a worker that is dropped is not pushed back.
DropWorkerForget(c) ==
  /\ pc[c] = "working"
  /\ worker' = [worker EXCEPT ![c] = NoWorker]
  /\ pc' = [pc EXCEPT ![c] = "dropping"]
  /\ UNCHANGED <<queue, permits, waiters, panicked>>

\* Worker::drop. The push fails silently when the queue is full.
DropWorker(c) ==
  /\ pc[c] = "working"
  /\ queue' = IF Len(queue) < Cardinality(Workers)
              THEN Append(queue, worker[c]) ELSE queue
  /\ worker' = [worker EXCEPT ![c] = NoWorker]
  /\ pc' = [pc EXCEPT ![c] = "dropping"]
  /\ UNCHANGED <<permits, waiters, panicked>>

\* Mutant: the permit is forgotten.
DropPermitForget(c) ==
  /\ pc[c] = "dropping"
  /\ pc' = [pc EXCEPT ![c] = "idle"]
  /\ UNCHANGED <<queue, permits, waiters, worker, panicked>>

\* The _permit field of the Worker is dropped.
DropPermit(c) ==
  /\ pc[c] = "dropping"
  /\ Release(c, "idle")
  /\ UNCHANGED <<queue, worker, panicked>>

\* Mutant: the permit is released before the worker is pushed back.
DropSwapped(c) ==
  \/ /\ pc[c] = "working"
     /\ Release(c, "dropping")
     /\ UNCHANGED <<queue, worker, panicked>>
  \/ /\ pc[c] = "dropping"
     /\ queue' = Append(queue, worker[c])
     /\ worker' = [worker EXCEPT ![c] = NoWorker]
     /\ pc' = [pc EXCEPT ![c] = "idle"]
     /\ UNCHANGED <<permits, waiters, panicked>>

\* A guard goes out of scope.
Drop(c) == DropWorker(c) \/ DropPermit(c)

Next ==
  \E c \in Callers :
    \/ Pop(c) \/ Wake(c) \/ Cancel(c) \/ TryPop(c)
    \/ TakeWorker(c) \/ Drop(c)

\* A task that is woken is polled, and a guard is dropped at some time. Nobody
\* has to call pop, and nobody has to cancel it.
Spec ==
  /\ Init /\ [][Next]_vars
  /\ \A c \in Callers : WF_vars(Wake(c) \/ TakeWorker(c) \/ Drop(c))

-----------------------------------------------------------------------------
(* Properties. *)

\* The variables have the types of the fields of WorkerQueue and Worker.
TypeOK ==
  /\ queue \in Seq(Workers)
  /\ permits \in Nat
  /\ waiters \in Seq(Callers)
  /\ pc \in [Callers -> States]
  /\ worker \in [Callers -> Workers \cup {NoWorker}]
  /\ panicked \in BOOLEAN

\* A permit stands for a worker that is in the queue: the unwrap after
\* acquire_owned and after try_acquire_owned never meets an empty queue.
NoEmptyPop ==
  /\ ~panicked
  /\ \A c \in Callers : pc[c] = "popping" => queue # <<>>

\* No worker is lost, in particular not by the push whose result Worker::drop
\* ignores, and no two callers have the same one.
WorkersConserved ==
  LET holders == {c \in Callers : worker[c] # NoWorker}
  IN  /\ Workers = ToSet(queue) \cup {worker[c] : c \in holders}
      /\ Len(queue) + Cardinality(holders) = Cardinality(Workers)

\* A caller that waits gets a worker, unless its future is dropped: permits are
\* neither lost nor given to callers that came later.
Served ==
  \A c \in Callers : pc[c] = "waiting" ~> pc[c] \in {"working", "idle"}
=============================================================================
