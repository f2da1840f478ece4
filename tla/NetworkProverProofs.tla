------------------------- MODULE NetworkProverProofs -------------------------
(***************************************************************************)
(* Theorems about NetworkProver, for all timeouts and any number of lost   *)
(* answers.                                                                *)
(*                                                                         *)
(* The invariant says which requests the client knows of in the first and  *)
(* in the second round of prove_impl, that an answer it acts on is no      *)
(* newer than the state of the request, and why the first round was given  *)
(* up.                                                                     *)
(***************************************************************************)
EXTENDS NetworkProver, FiniteSetTheorems, SequenceTheorems, TLAPS

RequestType == [whitelist : Whitelists, deadline : -1..Limit, status : Statuses]

\* Up to the request of a round, and from there on.
Pre ==
  {"get_program", "program_artifact", "create_program", "get_execution_limits",
   "get_proof_request_params", "request_proof", "stdin_artifact", "send_request"}

Loop == {"wait_proof", "get_proof_request_status"} \cup Statuses

Post == Loop \cup {"tee_proof", "get_provers_by_uptime"}

\* The requests the client knows of: the last one, and in the second round the
\* one of the first round.
Rounds ==
  /\ IF request_id = 0 THEN acked = {} ELSE request_id \in acked
  /\ \A i \in acked :
       /\ i <= request_id
       /\ i # request_id =>
            /\ whitelist = "fallback"
            /\ requests[i].whitelist = "none" /\ requests[request_id].whitelist = "fallback"
  /\ \A i, j \in acked : i # request_id /\ j # request_id => i = j
  /\ IF whitelist = "fallback"
     THEN options.auction /\ options.whitelist = "none" /\ request_id # 0
     ELSE whitelist = options.whitelist
  /\ pc \in Pre =>
       IF whitelist = "fallback"
       THEN acked = {request_id} /\ requests[request_id].whitelist = "none"
       ELSE request_id = 0
  /\ pc \in Post => request_id # 0 /\ requests[request_id].whitelist = whitelist
  /\ pc = "get_provers_by_uptime" => options.auction /\ whitelist = "none"

Count == Len(requests) = Cardinality(acked) + lost

\* A status that was seen was true, and the final ones still are.
Seen ==
  /\ pc \in {"Fulfilled", "Unfulfillable", "Unexecutable"} => requests[request_id].status = pc
  /\ pc = "Assigned" => requests[request_id].status # "Requested"
  /\ is_assigned =>
       request_id # 0 /\ pc # "Requested" /\ requests[request_id].status # "Requested"
  /\ requested <= elapsed

GivenUp(kind) ==
  LET r == requests[request_id] IN
  /\ kind = "RequestUnfulfillable" => r.status = "Unfulfillable"
  /\ kind = "RequestUnexecutable" => r.status = "Unexecutable"
  /\ kind = "RequestTimedOut" => TimedOut \/ r.deadline < 0
  /\ kind = "RequestAuctionTimedOut" => elapsed > AuctionTimeout /\ ~ is_assigned

Outcome ==
  /\ handle.id = IF options.tee_2fa THEN request_id ELSE 0
  /\ pc \in Pre \cup Loop => result = Pending
  /\ pc = "tee_proof" => result = Proof /\ options.tee_2fa
  /\ pc \in {"tee_proof", "done"} /\ result.kind = "proof" =>
       /\ result.id = request_id /\ request_id # 0
       /\ requests[request_id].status = "Fulfilled"
       /\ pc = "done" => result.tee = IF options.tee_2fa THEN request_id ELSE 0
       /\ pc = "done" /\ ~ options.tee_2fa => requests[request_id].deadline >= 0
  /\ pc = "get_provers_by_uptime" =>
       result.kind \in {"RequestUnfulfillable", "RequestTimedOut", "RequestAuctionTimedOut"}
  /\ pc \in {"get_provers_by_uptime", "done"} /\ result.kind # "proof" =>
       result.id = request_id /\ GivenUp(result.kind)

\* Why there is a second round.
Late ==
  pc \in Pre \cup {"get_provers_by_uptime"} /\ is_assigned =>
    TimedOut \/ requests[request_id].deadline < 0
      \/ requests[request_id].status = "Unfulfillable"

\* The inductive invariant.
IInv == TypeOK /\ Rounds /\ Count /\ Seen /\ Outcome /\ Late
-----------------------------------------------------------------------------
(* Facts about states. *)

PCs == Pre \cup Post \cup {"done"}

\* The limits are numbers, and stay while the options do.
LEMMA Limits ==
  /\ Timeout \in Nat /\ GasTimeout \in Nat /\ AuctionTimeout \in Nat /\ RetryTimeout \in Nat
  /\ MaxLost \in Nat /\ Limit \in Nat
  /\ Longest \in Nat /\ Longest >= Timeout /\ Longest >= AuctionTimeout
  /\ options' = options => Limit' = Limit /\ RequestType' = RequestType
<1>1. /\ Timeout \in Nat /\ GasTimeout \in Nat /\ AuctionTimeout \in Nat /\ RetryTimeout \in Nat
      /\ MaxLost \in Nat
  BY TimeoutsAssumption
<1>2. Limit \in Nat /\ (options' = options => Limit' = Limit)
  BY <1>1 DEF Limit
<1>3. Longest \in Nat /\ Longest >= Timeout /\ Longest >= AuctionTimeout
  BY <1>1 DEF Longest
<1>4. options' = options => RequestType' = RequestType
  BY Zenon, <1>2 DEF RequestType
<1> QED BY <1>1, <1>2, <1>3, <1>4

\* TypeOK by the names of its sets.
LEMMA Typed ==
  TypeOK <=>
    /\ options \in Options
    /\ pc \in PCs
    /\ whitelist \in Whitelists
    /\ request_id \in 0..Len(requests)
    /\ deadline \in -1..Limit
    /\ elapsed \in 0..(Longest + 1) /\ requested \in -1..(AuctionTimeout + 1)
    /\ retrying \in 0..(RetryTimeout + 1)
    /\ is_assigned \in BOOLEAN /\ asleep \in BOOLEAN /\ registered \in BOOLEAN
    /\ handle \in [id : 0..Len(requests), state : {"none", "running", "ok", "err"}]
    /\ result \in [kind : Kinds, id : 0..Len(requests), tee : 0..Len(requests)]
    /\ requests \in Seq(RequestType)
    /\ acked \subseteq DOMAIN requests
    /\ lost \in 0..MaxLost
<1>1. PCs = {"get_program", "program_artifact", "create_program", "get_execution_limits",
             "get_proof_request_params", "request_proof", "stdin_artifact", "send_request",
             "wait_proof", "get_proof_request_status", "tee_proof", "get_provers_by_uptime",
             "done"} \cup Statuses
  BY DEF PCs, Pre, Post, Loop
<1> QED BY <1>1 DEF TypeOK, RequestType

\* The type of a request.
LEMMA RequestTyped ==
  ASSUME TypeOK, NEW i \in 1..Len(requests)
  PROVE  requests[i] \in RequestType /\ requests[i].deadline \in Int
<1>1. requests[i] \in RequestType
  BY Typed, ElementOfSeq
<1> QED BY <1>1, Limits DEF RequestType

-----------------------------------------------------------------------------
(* Steps of the client, by what they change. *)

\* The client moves on within a round, or waits.
LEMMA Quiet ==
  ASSUME IInv, UNCHANGED <<options, client, requests, acked, lost>>,
         registered' \in BOOLEAN, asleep' \in BOOLEAN, retrying' \in 0..(RetryTimeout + 1),
         \/ pc' = pc
         \/ pc \in Pre /\ pc' \in Pre
         \/ pc = "wait_proof" /\ pc' = "get_proof_request_status"
  PROVE  IInv'
<1> USE DEF IInv
<1>1. UNCHANGED <<whitelist, request_id, deadline, elapsed, requested, is_assigned, handle, result>>
  BY DEF client
<1>2. TypeOK'
  <2>1. pc' \in PCs
    BY Typed DEF PCs, Post, Loop
  <2> QED BY <1>1, <2>1, Limits DEF TypeOK, PCs, Pre, Post, Loop
<1>3. Rounds'
  BY <1>1 DEF Rounds, Post, Loop, Pre, Statuses
<1>4. Count'
  BY DEF Count
<1>5. Seen'
  BY <1>1 DEF Seen, Pre
<1>6. Outcome'
  BY <1>1 DEF Outcome, GivenUp, TimedOut, Pre, Loop, Statuses, Proof
<1>7. Late'
  BY <1>1 DEF Late, TimedOut, Pre
<1> QED BY <1>2, <1>3, <1>4, <1>5, <1>6, <1>7

\* prove_impl returns an error.
LEMMA ReturnErr ==
  ASSUME IInv, NEW kind \in Kinds \ {"pending", "proof"}, GivenUp(kind), Return(Err(kind))
  PROVE  IInv'
<1> USE DEF IInv
<1>1. /\ UNCHANGED <<options, whitelist, request_id, deadline, elapsed, requested, is_assigned,
                     handle, registered, requests, acked, lost>>
      /\ pc' = "done" /\ retrying' = 0 /\ asleep' = FALSE
      /\ result' = [kind |-> kind, id |-> request_id, tee |-> 0]
  BY DEF Return, Goto, Err, network
<1>2. TypeOK'
  <2>1. /\ pc' \in PCs /\ retrying' \in 0..(RetryTimeout + 1)
        /\ result' \in [kind : Kinds, id : 0..Len(requests), tee : 0..Len(requests)]
    BY <1>1, Limits, Typed DEF PCs
  <2> QED BY Zenon, <1>1, <2>1, Limits DEF TypeOK, PCs, Pre, Post, Loop
<1>3. Rounds'
  BY <1>1 DEF Rounds, Post, Loop, Pre, Statuses
<1>4. Count'
  BY <1>1 DEF Count
<1>5. Seen'
  BY <1>1 DEF Seen
<1>6. Outcome'
  BY <1>1 DEF Outcome, GivenUp, TimedOut, Pre, Loop, Statuses
<1>7. Late'
  BY <1>1 DEF Late, Pre
<1> QED BY <1>2, <1>3, <1>4, <1>5, <1>6, <1>7

\* An error that is not about the request needs no reason.
LEMMA OtherErr ==
  ASSUME IInv, NEW kind \in {"rpc", "tee", "strategy", "SimulationFailed"}, Return(Err(kind))
  PROVE  IInv'
<1>1. kind \in Kinds \ {"pending", "proof"} /\ GivenUp(kind)
  BY DEF Kinds, GivenUp
<1> QED BY <1>1, ReturnErr

\* A call is tried again or its error returned.
LEMMA RetryIInv ==
  ASSUME IInv, NEW in_time, RetryOperation(in_time)
  PROVE  IInv'
<1>1. CASE Return(Err("rpc"))
  BY <1>1, OtherErr
<1>2. CASE asleep' = TRUE /\ UNCHANGED <<options, pc, retrying, client, network>>
  BY <1>2, Quiet, Typed DEF network, IInv
<1> QED BY Zenon, <1>1, <1>2 DEF RetryOperation

\* A step to another call starts its timer.
LEMMA GotoTyped ==
  ASSUME NEW next, Goto(next)
  PROVE  asleep' \in BOOLEAN /\ retrying' \in 0..(RetryTimeout + 1)
<1>1. retrying' \in 0..(RetryTimeout + 1)
  BY Limits DEF Goto
<1>2. asleep' \in BOOLEAN
  BY Zenon DEF Goto
<1> QED BY <1>1, <1>2

\* A call before the request is sent.
LEMMA CallIInv ==
  ASSUME IInv, NEW next \in Pre, pc \in Pre, Call(next)
  PROVE  IInv'
<1>1. CASE Goto(next) /\ UNCHANGED <<options, client, network>>
  <2>1. UNCHANGED <<options, client, requests, acked, lost>> /\ pc' = next
    BY <1>1 DEF network, Goto
  <2>2. registered' \in BOOLEAN
    BY <1>1, Typed DEF network, IInv
  <2> QED BY <1>1, <2>1, <2>2, GotoTyped, Quiet
<1>2. CASE RetryOperation(RetryInTime)
  BY <1>2, RetryIInv
<1> QED BY <1>1, <1>2 DEF Call

\* wait_proof ends with an error that is true of the request.
LEMMA FailIInv ==
  ASSUME IInv, pc \in Loop,
         NEW kind \in {"RequestUnfulfillable", "RequestTimedOut", "RequestAuctionTimedOut"},
         GivenUp(kind), Fail(kind)
  PROVE  IInv'
<1> DEFINE open == ~ options.reserved_capacity /\ options.auction /\ whitelist = "none"
<1>1. CASE ~ open
  <2>1. kind \in Kinds \ {"pending", "proof"}
    BY DEF Kinds
  <2> QED BY <1>1, <2>1, ReturnErr DEF Fail
<1>2. CASE open
  <2> USE DEF IInv
  <2>1. /\ UNCHANGED <<options, whitelist, request_id, deadline, elapsed, requested, is_assigned,
                       handle, registered, requests, acked, lost>>
        /\ pc' = "get_provers_by_uptime" /\ retrying' = 0 /\ asleep' = FALSE
        /\ result' = [kind |-> kind, id |-> request_id, tee |-> 0]
    BY <1>2 DEF Fail, Goto, Err, network
  <2>2. TypeOK'
    <3>1. /\ pc' \in PCs /\ retrying' \in 0..(RetryTimeout + 1)
          /\ result' \in [kind : Kinds, id : 0..Len(requests), tee : 0..Len(requests)]
      BY SMTT(30), <2>1, Limits, Typed DEF PCs, Post, Kinds
    <3> QED BY Zenon, <2>1, <3>1, Limits DEF TypeOK, PCs, Pre, Post, Loop
  <2>3. Rounds'
    BY <1>2, <2>1 DEF Rounds, Post, Loop, Pre, Statuses
  <2>4. Count'
    BY <2>1 DEF Count
  <2>5. Seen'
    BY <2>1 DEF Seen
  <2>6. Outcome'
    BY <2>1 DEF Outcome, GivenUp, TimedOut, Pre, Loop, Statuses
  <2>7. Late'
    BY <2>1 DEF Late, Pre, GivenUp, TimedOut
  <2> QED BY <2>2, <2>3, <2>4, <2>5, <2>6, <2>7
<1> QED BY <1>1, <1>2

-----------------------------------------------------------------------------
(* The actions. *)

\* The first state of prove_impl.
LEMMA InitIInv == Init => IInv
<1> SUFFICES ASSUME Init PROVE IInv
  OBVIOUS
<1>1. TypeOK
  <2>1. /\ request_id \in 0..Len(requests) /\ deadline \in -1..Limit
        /\ elapsed \in 0..(Longest + 1) /\ requested \in -1..(AuctionTimeout + 1)
        /\ retrying \in 0..(RetryTimeout + 1) /\ lost \in 0..MaxLost
    BY Limits DEF Init
  <2>2. /\ handle \in [id : 0..Len(requests), state : {"none", "running", "ok", "err"}]
        /\ result \in [kind : Kinds, id : 0..Len(requests), tee : 0..Len(requests)]
    BY DEF Init, NoHandle, Pending, Kinds
  <2>3. requests \in Seq(RequestType) /\ acked \subseteq DOMAIN requests
    BY DEF Init
  <2>4. options \in Options /\ whitelist \in Whitelists /\ pc \in PCs
    BY DEF Init, Options, Whitelists, PCs, Pre
  <2> QED BY Zenon, <2>1, <2>2, <2>3, <2>4, Typed DEF Init
<1>2. Rounds
  BY DEF Init, Rounds, Pre, Post, Loop, Statuses, Options
<1>3. Count
  BY FS_EmptySet DEF Init, Count
<1>4. Seen /\ Late
  BY DEF Init, Seen, Late
<1>5. Outcome
  BY DEF Init, Outcome, Pre, Loop, Statuses, NoHandle, Pending
<1> QED BY <1>1, <1>2, <1>3, <1>4, <1>5 DEF IInv

\* The calls before the request.
LEMMA BeforeIInv ==
  ASSUME IInv,
         GetProgram \/ ProgramArtifact \/ CreateProgram \/ GetExecutionLimits
           \/ GetProofRequestParams \/ StdinArtifact
  PROVE  IInv'
<1>1. CASE GetProgram
  BY <1>1, CallIInv DEF GetProgram, Pre
<1>2. CASE ProgramArtifact
  BY <1>2, CallIInv DEF ProgramArtifact, Pre
<1>3. CASE GetProofRequestParams
  BY <1>3, CallIInv DEF GetProofRequestParams, Pre
<1>4. CASE StdinArtifact
  BY <1>4, CallIInv DEF StdinArtifact, Pre
<1>5. CASE CreateProgram
  <2>1. CASE RetryOperation(RetryInTime)
    BY <2>1, RetryIInv
  <2>2. CASE ~ RetryOperation(RetryInTime)
    <3>1. /\ pc \in Pre /\ registered' = TRUE
          /\ UNCHANGED <<options, client, requests, acked, lost>>
          /\ \/ Goto("get_execution_limits")
             \/ asleep' = TRUE /\ UNCHANGED <<pc, retrying>>
      BY <1>5, <2>2 DEF CreateProgram, Pre
    <3>2. CASE Goto("get_execution_limits")
      BY Zenon, <3>1, <3>2, GotoTyped, Quiet DEF Goto, Pre
    <3>3. CASE asleep' = TRUE /\ UNCHANGED <<pc, retrying>>
      BY <3>1, <3>3, Typed, Quiet DEF IInv
    <3> QED BY Zenon, <3>1, <3>2, <3>3
  <2> QED BY <2>1, <2>2
<1>6. CASE GetExecutionLimits
  <2>1. CASE Return(Err("SimulationFailed"))
    BY <2>1, OtherErr
  <2>2. CASE ~ Return(Err("SimulationFailed"))
    <3>1. PICK next \in Pre : Goto(next) /\ UNCHANGED <<options, client, network>>
      BY <1>6, <2>2 DEF GetExecutionLimits, Pre
    <3>2. /\ UNCHANGED <<options, client, requests, acked, lost>>
          /\ pc \in Pre /\ pc' \in Pre
      BY <1>6, <3>1 DEF GetExecutionLimits, Goto, network, Pre
    <3>3. registered' \in BOOLEAN
      BY <3>1, Typed DEF network, IInv
    <3> QED BY <3>1, <3>2, <3>3, GotoTyped, Quiet
  <2> QED BY <2>1, <2>2
<1> QED BY <1>1, <1>2, <1>3, <1>4, <1>5, <1>6

\* The strategy is checked and the deadline set.
LEMMA CheckStrategyIInv ==
  ASSUME IInv, CheckStrategy
  PROVE  IInv'
<1>1. CASE options.auction = options.reserved_capacity
  BY <1>1, OtherErr DEF CheckStrategy
<1>2. CASE options.auction # options.reserved_capacity
  <2> USE DEF IInv
  <2>1. /\ UNCHANGED <<options, whitelist, request_id, elapsed, requested, is_assigned, handle,
                       result, registered, requests, acked, lost>>
        /\ pc = "request_proof" /\ pc' = "stdin_artifact" /\ retrying' = 0 /\ asleep' = FALSE
        /\ deadline' = Limit
    BY <1>2 DEF CheckStrategy, Goto, network
  <2>2. TypeOK'
    <3>1. pc' \in PCs /\ retrying' \in 0..(RetryTimeout + 1) /\ deadline' \in -1..Limit
      BY <2>1, Limits DEF PCs, Pre
    <3> QED BY Zenon, <2>1, <3>1, Limits DEF TypeOK, PCs, Pre, Post, Loop
  <2>3. Rounds'
    BY <2>1 DEF Rounds, Post, Loop, Pre, Statuses
  <2>4. Count' /\ Seen'
    BY <2>1 DEF Count, Seen
  <2>5. Outcome' /\ Late'
    BY <2>1 DEF Outcome, GivenUp, Late, TimedOut, Pre, Loop, Statuses
  <2> QED BY <2>2, <2>3, <2>4, <2>5
<1> QED BY <1>1, <1>2

\* The client knows of finitely many requests.
LEMMA AckedFinite ==
  ASSUME TypeOK
  PROVE  IsFiniteSet(acked) /\ Cardinality(acked) \in Nat
<1>1. requests \in Seq(RequestType) /\ acked \subseteq DOMAIN requests
  BY Typed
<1>2. Len(requests) \in Nat /\ acked \in SUBSET (1..Len(requests))
  BY <1>1
<1>3. IsFiniteSet(1..Len(requests))
  BY <1>2, FS_Interval
<1> QED BY Zenon, <1>2, <1>3, FS_Subset, FS_CardinalityType

\* A request reaches the network; the client may not learn of it.
LEMMA Appended ==
  ASSUME IInv, pc \in Pre, requests' = Append(requests, Request), options' = options
  PROVE  /\ requests' \in Seq(RequestType)' /\ Len(requests') = Len(requests) + 1
         /\ \A i \in 1..Len(requests) : requests'[i] = requests[i]
         /\ requests'[Len(requests) + 1] = Request
         /\ DOMAIN requests = 1..Len(requests) /\ DOMAIN requests' = 1..(Len(requests) + 1)
         /\ Len(requests) \in Nat
<1>1. Request \in RequestType
  BY Typed DEF Request, RequestType, Statuses, IInv
<1>2. requests \in Seq(RequestType)
  BY Typed DEF IInv
<1> QED BY <1>1, <1>2, Limits

\* The answer to request_proof is lost.
LEMMA LostIInv ==
  ASSUME IInv, pc \in Pre, lost < MaxLost, lost' = lost + 1,
         requests' = Append(requests, Request),
         \/ asleep' = TRUE /\ UNCHANGED <<pc, retrying, result>>
         \/ Goto("done") /\ result' = Err("rpc"),
         UNCHANGED <<options, registered, acked, whitelist, request_id, deadline, elapsed,
                     requested, is_assigned, handle>>
  PROVE  IInv'
<1> USE DEF IInv
<1>1. /\ requests' \in Seq(RequestType)' /\ Len(requests') = Len(requests) + 1
      /\ \A i \in 1..Len(requests) : requests'[i] = requests[i]
      /\ DOMAIN requests = 1..Len(requests) /\ DOMAIN requests' = 1..(Len(requests) + 1)
      /\ Len(requests) \in Nat
  BY Appended
<1>2. request_id \in 0..Len(requests) /\ acked \subseteq 1..Len(requests)
  BY <1>1, Typed
<1>3. request_id # 0 => request_id \in 1..Len(requests)
  BY <1>1, <1>2
<1>4. pc' = pc \/ pc' = "done"
  BY DEF Goto
<1>5. TypeOK'
  <2>1. pc' \in PCs
    BY <1>4, Typed DEF PCs
  <2>2. retrying' \in 0..(RetryTimeout + 1)
    <3>1. retrying \in 0..(RetryTimeout + 1)
      BY Typed
    <3> QED BY <3>1, Limits DEF Goto
  <2>3. asleep' \in BOOLEAN
    BY Zenon DEF Goto
  <2>4. result' \in [kind : Kinds, id : 0..Len(requests'), tee : 0..Len(requests')]
    <3>1. \A i \in 0..Len(requests) : i \in 0..Len(requests')
      BY <1>1
    <3>2. result \in [kind : Kinds, id : 0..Len(requests), tee : 0..Len(requests)]
      BY Typed
    <3>3. result \in [kind : Kinds, id : 0..Len(requests'), tee : 0..Len(requests')]
      BY <3>1, <3>2
    <3>4. Err("rpc") \in [kind : Kinds, id : 0..Len(requests'), tee : 0..Len(requests')]
      BY <1>1, <1>2, <3>1 DEF Err, Kinds
    <3> QED BY <3>3, <3>4
  <2>5. handle \in [id : 0..Len(requests'), state : {"none", "running", "ok", "err"}]
    BY SMTT(30), <1>1, Typed
  <2>6. lost' \in 0..MaxLost /\ request_id' \in 0..Len(requests') /\ acked' \subseteq DOMAIN requests'
    <3>1. lost \in 0..MaxLost
      BY Typed
    <3> QED BY <1>1, <1>2, <3>1, Limits
  <2> QED BY SMTT(30), <1>1, <2>1, <2>2, <2>3, <2>4, <2>5, <2>6, Limits, Typed
          DEF TypeOK, PCs, Pre, Post, Loop, RequestType
<1>6. Rounds'
  BY <1>1, <1>2, <1>3, <1>4 DEF Rounds, Post, Loop, Pre, Statuses
<1>7. Count'
  <2>1. lost \in Nat
    BY Typed, Limits
  <2> QED BY <1>1, <2>1, AckedFinite DEF Count
<1>8. Seen'
  BY SMTT(30), <1>1, <1>3, <1>4 DEF Seen, Pre, Statuses
<1>9. Outcome'
  BY SMTT(30), <1>1, <1>3, <1>4 DEF Outcome, GivenUp, TimedOut, Pre, Loop, Statuses,
     Err, Goto, Pending
<1>10. Late'
  BY <1>1, <1>3, <1>4, <1>8 DEF Late, Seen, TimedOut, Pre
<1> QED BY <1>5, <1>6, <1>7, <1>8, <1>9, <1>10

\* The request is sent and the client waits for it.
LEMMA SentIInv ==
  ASSUME IInv, pc \in Pre, requests' = Append(requests, Request),
         acked' = acked \cup {Len(requests) + 1}, Goto("wait_proof"),
         WaitFrom(Len(requests) + 1),
         UNCHANGED <<options, registered, lost, whitelist, deadline, result>>
  PROVE  IInv'
<1> USE DEF IInv
<1> DEFINE n == Len(requests) + 1
<1>1. /\ requests' \in Seq(RequestType)' /\ Len(requests') = n
      /\ \A i \in 1..Len(requests) : requests'[i] = requests[i]
      /\ requests'[n] = Request
      /\ DOMAIN requests = 1..Len(requests) /\ DOMAIN requests' = 1..n
      /\ Len(requests) \in Nat
  BY Appended
<1>2. request_id \in 0..Len(requests) /\ acked \subseteq 1..Len(requests)
  BY <1>1, Typed
<1>3. /\ request_id' = n /\ handle' = Spawn(n) /\ elapsed' = 0 /\ requested' = -1
      /\ is_assigned' = FALSE /\ pc' = "wait_proof"
  BY DEF WaitFrom, Goto
<1>4. n \in Nat /\ n # 0 /\ n = Len(requests) + 1 /\ \A i \in acked : i < n
  BY SMTT(30), <1>1, <1>2
<1>a. acked' = acked \cup {n}
  BY SMTT(30)
<1> HIDE DEF n
<1>5. TypeOK'
  <2>1. pc' \in PCs
    BY <1>3 DEF PCs, Post, Loop
  <2>2. retrying' \in 0..(RetryTimeout + 1) /\ asleep' \in BOOLEAN
    BY GotoTyped
  <2>3. result' \in [kind : Kinds, id : 0..Len(requests'), tee : 0..Len(requests')]
    <3>1. result = Pending
      BY DEF Outcome
    <3> QED BY SMTT(30), <1>1, <1>4, <3>1 DEF Pending, Kinds
  <2>4. handle' \in [id : 0..Len(requests'), state : {"none", "running", "ok", "err"}]
    BY <1>1, <1>3, <1>4 DEF Spawn, NoHandle
  <2>5. request_id' \in 0..Len(requests') /\ acked' \subseteq DOMAIN requests'
    <3>1. \A i \in 1..Len(requests) : i \in 1..n
      BY <1>1, <1>4
    <3>2. n \in 1..n /\ n \in 0..n
      BY <1>4
    <3> QED BY SMTT(30), <1>1, <1>2, <1>3, <1>a, <3>1, <3>2
  <2>6. elapsed' \in 0..(Longest + 1) /\ requested' \in -1..(AuctionTimeout + 1)
    BY <1>3, Limits
  <2>7. is_assigned' \in BOOLEAN
    BY Zenon, <1>3
  <2> QED BY SMTT(30), <1>1, <2>1, <2>2, <2>3, <2>4, <2>5, <2>6, <2>7, Limits, Typed
          DEF TypeOK, PCs, Pre, Post, Loop, RequestType
<1>6. Rounds'
  <2>1. acked' = acked \cup {n}
    BY <1>a
  <2>2. \A i \in acked : requests'[i] = requests[i]
    BY SMTT(30), <1>1, <1>2
  <2>3. requests'[n].whitelist = whitelist
    BY SMTT(30), <1>1 DEF Request
  <2>4. whitelist # "fallback" => acked = {}
    BY DEF Rounds
  <2>5. whitelist = "fallback" =>
          /\ acked = {request_id} /\ requests[request_id].whitelist = "none"
          /\ options.auction /\ options.whitelist = "none"
    BY DEF Rounds
  <2>6. pc' \notin Pre /\ pc' # "get_provers_by_uptime"
    BY <1>3 DEF Pre
  <2>7. whitelist # "fallback" => whitelist = options.whitelist
    BY DEF Rounds
  <2>8. whitelist' = whitelist /\ options' = options
    OBVIOUS
  <2>9. \A i \in acked' :
          /\ i <= n
          /\ i # n => /\ whitelist = "fallback" /\ requests'[i].whitelist = "none"
                      /\ requests'[n].whitelist = "fallback"
    <3> SUFFICES ASSUME NEW i \in acked'
                 PROVE  /\ i <= n
                        /\ i # n => /\ whitelist = "fallback" /\ requests'[i].whitelist = "none"
                                    /\ requests'[n].whitelist = "fallback"
      BY Zenon
    <3>1. CASE i = n
      BY <1>4, <3>1
    <3>2. CASE i \in acked
      <4>1. i < n /\ i \in Nat
        BY <1>1, <1>2, <1>4, <3>2
      <4>2. whitelist = "fallback" /\ i = request_id
        BY <2>4, <2>5, <3>2
      <4>3. i <= n
        BY <1>4, <4>1
      <4>4. requests'[i].whitelist = "none"
        BY Zenon, <2>2, <2>5, <3>2, <4>2
      <4> QED BY <2>3, <4>2, <4>3, <4>4
    <3> QED BY Zenon, <2>1, <3>1, <3>2
  <2>10. \A i, j \in acked' : i # n /\ j # n => i = j
    BY Zenon, <2>1, <2>4, <2>5
  <2>11. pc' \in Post => request_id' # 0 /\ requests'[request_id'].whitelist = whitelist'
    BY <1>3, <1>4, <2>3, <2>8
  <2>12. IF whitelist' = "fallback"
         THEN options'.auction /\ options'.whitelist = "none" /\ request_id' # 0
         ELSE whitelist' = options'.whitelist
    BY SMTT(30), <1>3, <1>4, <2>5, <2>7, <2>8
  <2> QED BY Zenon, <1>3, <1>4, <2>1, <2>6, <2>8, <2>9, <2>10, <2>11, <2>12 DEF Rounds
<1>7. Count'
  <2>1. lost \in Nat
    BY Typed, Limits
  <2>2. n \notin acked
    BY <1>4
  <2>3. Cardinality(acked \cup {n}) = Cardinality(acked) + 1
    BY SMTT(30), <2>2, AckedFinite, FS_AddElement
  <2> QED BY SMTT(30), <1>1, <1>4, <1>a, <2>1, <2>3, AckedFinite DEF Count
<1>8. Seen'
  BY <1>3 DEF Seen
<1>9. Outcome'
  BY <1>3, <1>4 DEF Outcome, Pre, Loop, Statuses, Spawn, NoHandle
<1>10. Late'
  BY <1>3 DEF Late
<1> QED BY SMTT(30), <1>5, <1>6, <1>7, <1>8, <1>9, <1>10

\* NetworkClient::request_proof.
LEMMA SendRequestIInv ==
  ASSUME IInv, SendRequest
  PROVE  IInv'
<1>1. pc \in Pre
  BY DEF SendRequest, Pre
<1>2. CASE RetryOperation(RetryInTime)
  BY <1>2, RetryIInv
<1>3. CASE WaitFrom(Len(requests) + 1) /\ acked' = acked \cup {Len(requests) + 1}
           /\ requests' = Append(requests, Request) /\ Goto("wait_proof")
           /\ UNCHANGED <<options, registered, lost, whitelist, deadline, result>>
  BY <1>1, <1>3, SentIInv
<1>4. CASE /\ lost < MaxLost /\ lost' = lost + 1 /\ requests' = Append(requests, Request)
           /\ \/ RetryInTime /\ asleep' = TRUE /\ UNCHANGED <<pc, retrying, result>>
              \/ Goto("done") /\ result' = Err("rpc")
           /\ UNCHANGED <<options, registered, acked, whitelist, request_id, deadline, elapsed,
                          requested, is_assigned, handle>>
  BY Zenon, <1>1, <1>4, LostIInv
<1> QED BY Zenon, <1>2, <1>3, <1>4 DEF SendRequest

\* The request a client waits for is one the network has.
LEMMA Waiting ==
  ASSUME IInv, pc \in Post
  PROVE  /\ request_id \in 1..Len(requests)
         /\ requests[request_id] \in RequestType /\ requests[request_id].deadline \in Int
<1>1. request_id \in 0..Len(requests) /\ request_id # 0 /\ Len(requests) \in Nat
  BY Typed DEF IInv, Rounds
<1>2. request_id \in 1..Len(requests)
  BY <1>1
<1> QED BY <1>2, RequestTyped DEF IInv

\* wait_proof looks at the time before it asks for the status.
LEMMA WaitProofIInv ==
  ASSUME IInv, WaitProof
  PROVE  IInv'
<1>1. pc = "wait_proof" /\ pc \in Loop
  BY DEF WaitProof, Loop
<1>2. CASE TimedOut
  <2>1. GivenUp("RequestTimedOut")
    BY <1>2 DEF GivenUp
  <2> QED BY <1>1, <1>2, <2>1, FailIInv DEF WaitProof
<1>3. CASE ~ TimedOut
  <2>1. Goto("get_proof_request_status") /\ UNCHANGED <<options, client, network>>
    BY <1>3 DEF WaitProof
  <2>2. registered' \in BOOLEAN
    BY <2>1, Typed DEF network, IInv
  <2>3. UNCHANGED <<options, client, requests, acked, lost>> /\ pc' = "get_proof_request_status"
    BY <2>1 DEF network, Goto
  <2> QED BY <1>1, <2>1, <2>2, <2>3, GotoTyped, Quiet
<1> QED BY <1>2, <1>3

\* The network answers with the state of the request.
LEMMA StatusIInv ==
  ASSUME IInv, GetProofRequestStatus
  PROVE  IInv'
<1>1. CASE RetryOperation(StatusInTime)
  BY <1>1, RetryIInv
<1>2. CASE ~ RetryOperation(StatusInTime)
  <2> USE DEF IInv
  <2>1. /\ pc = "get_proof_request_status" /\ pc' = requests[request_id].status
        /\ retrying' = 0 /\ asleep' = FALSE
        /\ UNCHANGED <<options, whitelist, request_id, deadline, elapsed, requested, is_assigned,
                       handle, result, registered, requests, acked, lost>>
    BY <1>2 DEF GetProofRequestStatus, Goto, client, network
  <2>2. pc \in Post /\ pc' \in Statuses
    BY SMTT(30), <2>1, Waiting DEF Post, Loop, RequestType
  <2>3. TypeOK'
    <3>1. pc' \in PCs /\ retrying' \in 0..(RetryTimeout + 1)
      BY <2>1, <2>2, Limits DEF PCs, Post, Loop
    <3> QED BY ZenonT(40), <2>1, <3>1, Limits DEF TypeOK, PCs, Pre, Post, Loop
  <2>4. Rounds'
    BY <2>1, <2>2 DEF Rounds, Post, Loop, Pre, Statuses
  <2>5. Count' /\ Seen'
    BY <2>1, <2>2 DEF Count, Seen, Statuses
  <2>6. Outcome' /\ Late'
    BY <2>1, <2>2 DEF Outcome, Late, Pre, Loop, Statuses
  <2> QED BY <2>3, <2>4, <2>5, <2>6
<1> QED BY <1>1, <1>2

\* The loop of wait_proof sleeps and goes on.
LEMMA SleepIInv ==
  ASSUME IInv, pc \in Statuses, Sleep(pc)
  PROVE  IInv'
<1> USE DEF IInv
<1>1. /\ pc' = "wait_proof" /\ retrying' = 0 /\ asleep' = TRUE
      /\ is_assigned' = (is_assigned \/ pc = "Assigned")
      /\ requested' = IF pc = "Requested" /\ requested < 0 THEN 0 ELSE requested
      /\ UNCHANGED <<options, whitelist, request_id, deadline, elapsed, handle, result,
                     registered, requests, acked, lost>>
  BY DEF Sleep, network
<1>2. elapsed \in 0..(Longest + 1) /\ requested \in -1..(AuctionTimeout + 1)
  BY Typed
<1>3. request_id # 0 /\ pc \in Post
  BY DEF Rounds, Post, Loop
<1>4. TypeOK'
  <2>1. pc' \in PCs /\ retrying' \in 0..(RetryTimeout + 1)
    BY <1>1, Limits DEF PCs, Post, Loop
  <2>2. requested' \in -1..(AuctionTimeout + 1)
    BY <1>1, <1>2, Limits
  <2>3. is_assigned' \in BOOLEAN
    BY SMTT(30), <1>1, Typed
  <2> QED BY <1>1, <2>1, <2>2, <2>3, Limits DEF TypeOK, PCs, Pre, Post, Loop
<1>5. Rounds'
  BY <1>1, <1>3 DEF Rounds, Post, Loop, Pre, Statuses
<1>6. Count'
  BY SMTT(30), <1>1 DEF Count
<1>7. Seen'
  <2>1. requested' <= elapsed'
    <3>1. requested <= elapsed
      BY DEF Seen
    <3>2. elapsed' = elapsed /\ requested' \in {0, requested}
      BY SMTT(30), <1>1
    <3> QED BY <1>2, <3>1, <3>2
  <2>2. is_assigned' => requests[request_id].status # "Requested"
    BY Zenon, <1>1 DEF Seen
  <2> QED BY <1>1, <1>3, <2>1, <2>2 DEF Seen
<1>8. Outcome' /\ Late'
  BY <1>1, <1>3 DEF Outcome, Late, Pre, Loop, Statuses
<1> QED BY <1>4, <1>5, <1>6, <1>7, <1>8

\* An answer without a proof.
LEMMA ProcessIInv ==
  ASSUME IInv, ProcessProofStatus
  PROVE  IInv'
<1>1. pc \in Statuses /\ pc # "Fulfilled" /\ pc \in Loop /\ pc \in Post /\ Process(pc)
  BY DEF ProcessProofStatus, Loop, Post
<1>2. CASE Overdue
  <2>1. GivenUp("RequestTimedOut")
    BY <1>2 DEF GivenUp, Overdue
  <2> QED BY <1>1, <1>2, <2>1, FailIInv DEF Process
<1>3. CASE ~ Overdue /\ pc = "Unexecutable"
  <2>1. GivenUp("RequestUnexecutable") /\ "RequestUnexecutable" \in Kinds \ {"pending", "proof"}
    BY <1>3 DEF GivenUp, IInv, Seen, Kinds
  <2> QED BY <1>1, <1>3, <2>1, ReturnErr DEF Process
<1>4. CASE ~ Overdue /\ pc = "Unfulfillable"
  <2>1. GivenUp("RequestUnfulfillable")
    BY <1>4 DEF GivenUp, IInv, Seen
  <2> QED BY <1>1, <1>4, <2>1, FailIInv DEF Process
<1>5. CASE ~ Overdue /\ pc = "Requested" /\ requested > AuctionTimeout
  <2>1. elapsed \in 0..(Longest + 1) /\ requested \in -1..(AuctionTimeout + 1)
    BY Typed DEF IInv
  <2>2. elapsed > AuctionTimeout /\ ~ is_assigned
    BY <1>5, <2>1, Limits DEF IInv, Seen
  <2>3. GivenUp("RequestAuctionTimedOut")
    BY <2>2 DEF GivenUp
  <2> QED BY <1>1, <1>5, <2>3, FailIInv DEF Process
<1>6. CASE /\ ~ Overdue /\ pc \notin {"Unexecutable", "Unfulfillable"}
           /\ ~ (pc = "Requested" /\ requested > AuctionTimeout)
  BY <1>1, <1>6, SleepIInv DEF Process
<1> QED BY <1>2, <1>3, <1>4, <1>5, <1>6

\* A proof is downloaded.
LEMMA DownloadIInv ==
  ASSUME IInv, DownloadArtifact
  PROVE  IInv'
<1>1. pc = "Fulfilled" /\ pc \in Loop /\ pc \in Post
  BY DEF DownloadArtifact, Loop, Post, Statuses
<1>2. CASE RetryOperation(RetryInTime)
  BY <1>2, RetryIInv
<1>3. CASE Overdue /\ Fail("RequestTimedOut")
  <2>1. GivenUp("RequestTimedOut")
    BY <1>3 DEF GivenUp, Overdue
  <2> QED BY <1>1, <1>3, <2>1, FailIInv
<1>4. CASE \/ ~ Overdue /\ options.tee_2fa /\ ToTee
           \/ ~ Overdue /\ ~ options.tee_2fa /\ Return(Proof)
  <2> USE DEF IInv
  <2>1. /\ UNCHANGED <<options, whitelist, request_id, deadline, elapsed, requested, is_assigned,
                       handle, registered, requests, acked, lost>>
        /\ pc' = IF options.tee_2fa THEN "tee_proof" ELSE "done"
        /\ retrying' = 0 /\ asleep' = FALSE
        /\ result' = [kind |-> "proof", id |-> request_id, tee |-> 0]
        /\ ~ Overdue
    BY SMTT(30), <1>4 DEF ToTee, Return, Goto, Proof, network
  <2>2. /\ request_id \in 1..Len(requests) /\ requests[request_id].deadline >= 0
        /\ requests[request_id].status = "Fulfilled"
    BY SMTT(30), <1>1, <2>1, Waiting DEF Overdue, Seen
  <2>3. TypeOK'
    <3>1. pc' \in PCs
      BY <2>1 DEF PCs, Post
    <3>2. retrying' \in 0..(RetryTimeout + 1)
      BY <2>1, Limits
    <3>3. result' \in [kind : Kinds, id : 0..Len(requests), tee : 0..Len(requests)]
      <4>1. request_id \in 0..Len(requests) /\ 0 \in 0..Len(requests)
        BY Typed
      <4> QED BY <2>1, <4>1 DEF Kinds
    <3> QED BY ZenonT(60), <2>1, <3>1, <3>2, <3>3, Limits DEF TypeOK, PCs, Pre, Post, Loop
  <2>4. Rounds'
    BY SMTT(30), <1>1, <2>1 DEF Rounds, Post, Loop, Pre, Statuses
  <2>5. Count' /\ Seen'
    BY SMTT(30), <2>1 DEF Count, Seen
  <2>6. Outcome'
    BY SMTT(30), <2>1, <2>2 DEF Outcome, Pre, Loop, Statuses, Proof
  <2>7. Late'
    BY <2>1 DEF Late, Pre
  <2> QED BY SMTT(30), <2>3, <2>4, <2>5, <2>6, <2>7
<1> QED BY <1>2, <1>3, <1>4 DEF DownloadArtifact

\* The fallback provers are found, and the second round begins, or the error is
\* returned.
LEMMA FallbackIInv ==
  ASSUME IInv, GetProversByUptime
  PROVE  IInv'
<1>1. pc = "get_provers_by_uptime" /\ pc \in Post
  BY DEF GetProversByUptime, Post
<1>2. CASE Return(Err("rpc"))
  BY <1>2, OtherErr
<1>3. CASE Return(result)
  <2>1. /\ result.kind \in {"RequestUnfulfillable", "RequestTimedOut", "RequestAuctionTimedOut"}
        /\ result.id = request_id /\ GivenUp(result.kind)
    BY <1>1 DEF IInv, Outcome
  <2> USE DEF IInv
  <2>2. /\ UNCHANGED <<options, whitelist, request_id, deadline, elapsed, requested, is_assigned,
                       handle, result, registered, requests, acked, lost>>
        /\ pc' = "done" /\ retrying' = 0 /\ asleep' = FALSE
    BY SMTT(30), <1>3 DEF Return, Goto, network
  <2>3. TypeOK'
    <3>1. pc' \in PCs /\ retrying' \in 0..(RetryTimeout + 1)
      BY <2>2, Limits DEF PCs
    <3> QED BY ZenonT(60), <2>2, <3>1, Limits DEF TypeOK, PCs, Pre, Post, Loop
  <2>4. Rounds'
    BY <2>2 DEF Rounds, Post, Loop, Pre, Statuses
  <2>5. Count' /\ Seen'
    BY SMTT(30), <2>2 DEF Count, Seen
  <2>6. Outcome' /\ Late'
    BY <2>1, <2>2 DEF Outcome, GivenUp, TimedOut, Late, Pre, Loop, Statuses
  <2> QED BY SMTT(30), <2>3, <2>4, <2>5, <2>6
<1>4. CASE /\ Goto("get_program") /\ whitelist' = "fallback" /\ result' = Pending
           /\ UNCHANGED <<options, network, request_id, deadline, elapsed, requested, is_assigned,
                          handle>>
  <2> USE DEF IInv
  <2>1. /\ UNCHANGED <<options, request_id, deadline, elapsed, requested, is_assigned, handle,
                       registered, requests, acked, lost>>
        /\ pc' = "get_program" /\ retrying' = 0 /\ asleep' = FALSE
        /\ whitelist' = "fallback" /\ result' = Pending
    BY <1>4 DEF Goto, network
  <2>2. /\ request_id # 0 /\ request_id \in acked /\ whitelist = "none" /\ options.auction
        /\ requests[request_id].whitelist = "none" /\ options.whitelist = "none"
        /\ \A i \in acked : i = request_id
    BY <1>1 DEF Rounds
  <2>3. acked = {request_id}
    BY SMTT(30), <2>2
  <2>4. TypeOK'
    <3>1. pc' \in PCs /\ retrying' \in 0..(RetryTimeout + 1) /\ whitelist' \in Whitelists
      BY <2>1, Limits DEF PCs, Pre, Whitelists
    <3>2. result' \in [kind : Kinds, id : 0..Len(requests), tee : 0..Len(requests)]
      <4>1. 0 \in 0..Len(requests)
        BY Typed
      <4> QED BY <2>1, <4>1 DEF Kinds, Pending
    <3> QED BY Zenon, <2>1, <3>1, <3>2, Limits DEF TypeOK, PCs, Pre, Post, Loop
  <2>5. Rounds'
    <3>1. request_id <= request_id
      BY Typed
    <3> QED BY <2>1, <2>2, <2>3, <3>1 DEF Rounds, Post, Loop, Statuses
  <2>6. Count' /\ Seen'
    BY SMTT(30), <2>1 DEF Count, Seen
  <2>7. Outcome' /\ Late'
    BY <1>1, <2>1 DEF Outcome, Late, TimedOut, Pre, Loop, Statuses
  <2> QED BY <2>4, <2>5, <2>6, <2>7
<1> QED BY <1>2, <1>3, <1>4 DEF GetProversByUptime

\* The proof of the TEE server is of the request, or fails.
LEMMA TeeProofIInv ==
  ASSUME IInv, TeeProof
  PROVE  IInv'
<1>1. CASE Return(Err("tee"))
  BY <1>1, OtherErr
<1>2. CASE Return([result EXCEPT !.tee = handle.id])
  <2> USE DEF IInv
  <2>1. /\ UNCHANGED <<options, whitelist, request_id, deadline, elapsed, requested, is_assigned,
                       handle, registered, requests, acked, lost>>
        /\ pc = "tee_proof" /\ pc' = "done" /\ retrying' = 0 /\ asleep' = FALSE
        /\ result' = [result EXCEPT !.tee = handle.id]
    BY <1>2 DEF TeeProof, Return, Goto, network
  <2>2. /\ result = [kind |-> "proof", id |-> request_id, tee |-> 0] /\ options.tee_2fa
        /\ handle.id = request_id /\ request_id # 0
        /\ requests[request_id].status = "Fulfilled"
    BY <2>1 DEF Outcome, Proof
  <2>3. result' = [kind |-> "proof", id |-> request_id, tee |-> request_id]
    BY <2>1, <2>2
  <2>4. TypeOK'
    <3>1. pc' \in PCs /\ retrying' \in 0..(RetryTimeout + 1)
      BY <2>1, Limits DEF PCs
    <3>2. result' \in [kind : Kinds, id : 0..Len(requests), tee : 0..Len(requests)]
      <4>1. request_id \in 0..Len(requests)
        BY Typed
      <4> QED BY <2>3, <4>1 DEF Kinds
    <3> QED BY ZenonT(40), <2>1, <3>1, <3>2, Limits DEF TypeOK, PCs, Pre, Post, Loop
  <2>5. Rounds'
    BY <2>1 DEF Rounds, Post, Loop, Pre, Statuses
  <2>6. Count' /\ Seen'
    BY <2>1 DEF Count, Seen
  <2>7. Outcome' /\ Late'
    BY <2>1, <2>2, <2>3 DEF Outcome, Late, Pre, Loop, Statuses
  <2> QED BY <2>4, <2>5, <2>6, <2>7
<1> QED BY <1>1, <1>2 DEF TeeProof

-----------------------------------------------------------------------------
(* Steps of the network, of the TEE server and of time. *)

\* What a change of the requests must keep: their number, their whitelists, the
\* final statuses, and a deadline that has passed.
Onward ==
  /\ requests' \in Seq(RequestType) /\ Len(requests') = Len(requests)
  /\ \A i \in 1..Len(requests) :
       /\ requests'[i].whitelist = requests[i].whitelist
       /\ requests[i].status \in {"Fulfilled", "Unfulfillable", "Unexecutable"} =>
            requests'[i].status = requests[i].status
       /\ requests[i].status # "Requested" => requests'[i].status # "Requested"
       /\ requests[i].deadline < 0 => requests'[i].deadline < 0

\* The requests go on while a call runs; timers may too.
LEMMA OnwardIInv ==
  ASSUME IInv, pc # "done", Onward,
         UNCHANGED <<options, pc, whitelist, request_id, is_assigned, handle, result,
                     registered, acked, lost>>,
         asleep' \in BOOLEAN, retrying' \in 0..(RetryTimeout + 1), deadline' \in -1..Limit,
         elapsed' \in 0..(Longest + 1), requested' \in -1..(AuctionTimeout + 1),
         elapsed' >= elapsed, requested' <= elapsed'
  PROVE  IInv'
<1> USE DEF IInv
<1>1. /\ requests \in Seq(RequestType) /\ Len(requests) \in Nat
      /\ DOMAIN requests = 1..Len(requests) /\ DOMAIN requests' = 1..Len(requests)
  BY Typed DEF Onward
<1>2. request_id \in 0..Len(requests) /\ acked \subseteq 1..Len(requests)
  BY <1>1, Typed
<1>3. request_id # 0 => request_id \in 1..Len(requests)
  BY <1>1, <1>2
<1>4. elapsed \in Int /\ elapsed' \in Int
  BY SMTT(30), Typed, Limits
<1>5. TypeOK'
  <2>1. Len(requests') = Len(requests) /\ requests' \in Seq(RequestType)
    BY DEF Onward
  <2>2. acked' \subseteq DOMAIN requests'
    BY SMTT(30), <1>1, <1>2
  <2> QED BY SMTT(30), <2>1, <2>2, Limits, Typed DEF TypeOK, RequestType
<1>6. Rounds'
  <2>1. \A i \in 1..Len(requests) : requests'[i].whitelist = requests[i].whitelist
    BY DEF Onward
  <2> QED BY SMTT(30), <1>2, <1>3, <2>1 DEF Rounds
<1>7. Count'
  BY DEF Count, Onward
<1>8. TimedOut => TimedOut'
  BY <1>4, Limits DEF TimedOut
<1>9. elapsed > AuctionTimeout => elapsed' > AuctionTimeout
  BY SMTT(30), <1>4, Limits
<1>10. Seen'
  <2>1. pc \in Statuses => request_id # 0
    BY SMTT(30) DEF Rounds, Post, Loop
  <2> QED BY <1>3, <2>1 DEF Seen, Onward, Statuses
<1>11. Outcome'
  <2>1. pc \in {"tee_proof", "get_provers_by_uptime"} => request_id # 0
    BY SMTT(30) DEF Rounds, Post
  <2>2. pc = "get_provers_by_uptime" => (GivenUp(result.kind) => GivenUp(result.kind)')
    BY SMTT(30), <1>3, <1>8, <1>9, <2>1 DEF GivenUp, Onward
  <2>3. pc = "tee_proof" /\ requests[request_id].status = "Fulfilled" =>
          requests'[request_id].status = "Fulfilled"
    BY SMTT(30), <1>3, <2>1 DEF Onward
  <2> QED BY SMTT(30), <2>2, <2>3 DEF Outcome, Proof
<1>12. Late'
  BY <1>3, <1>8 DEF Late, Seen, Onward
<1> QED BY <1>5, <1>6, <1>7, <1>10, <1>11, <1>12

\* A request moves on.
LEMMA ProgressIInv ==
  ASSUME IInv, NEW i \in DOMAIN requests, NEW status \in Statuses, Progress(i, status)
  PROVE  IInv'
<1>1. requests \in Seq(RequestType) /\ i \in 1..Len(requests) /\ Len(requests) \in Nat
  BY Typed DEF IInv
<1>2. requests' = [requests EXCEPT ![i] = [requests[i] EXCEPT !.status = status]]
  BY DEF Progress
<1>3. requests[i] \in RequestType
  BY <1>1, ElementOfSeq
<1>4. [requests[i] EXCEPT !.status = status] \in RequestType
  BY <1>3 DEF RequestType
<1>5. requests' \in Seq(RequestType) /\ Len(requests') = Len(requests)
  BY <1>1, <1>2, <1>4, ExceptSeq
<1>6. \A j \in 1..Len(requests) :
        requests'[j] = IF j = i THEN [requests[i] EXCEPT !.status = status] ELSE requests[j]
  BY SMTT(30), <1>1, <1>2
<1>7. Onward
  <2> SUFFICES ASSUME NEW j \in 1..Len(requests)
               PROVE  /\ requests'[j].whitelist = requests[j].whitelist
                      /\ requests[j].status \in {"Fulfilled", "Unfulfillable", "Unexecutable"} =>
                           requests'[j].status = requests[j].status
                      /\ requests[j].status # "Requested" => requests'[j].status # "Requested"
                      /\ requests[j].deadline < 0 => requests'[j].deadline < 0
    BY <1>5 DEF Onward
  <2>1. CASE j # i
    BY <1>6, <2>1
  <2>2. CASE j = i
    <3>1. /\ requests'[i].whitelist = requests[i].whitelist
          /\ requests'[i].deadline = requests[i].deadline /\ requests'[i].status = status
      BY <1>1, <1>3, <1>6 DEF RequestType
    <3> QED BY <2>2, <3>1 DEF Progress, Statuses
  <2> QED BY SMTT(30), <2>1, <2>2
<1>8. UNCHANGED <<options, pc, retrying, asleep, whitelist, request_id, deadline, elapsed, requested,
                  is_assigned, handle, result, registered, acked, lost>> /\ pc # "done"
  BY DEF Progress, client
<1>9. /\ retrying' \in 0..(RetryTimeout + 1) /\ deadline' \in -1..Limit
      /\ elapsed' \in 0..(Longest + 1) /\ requested' \in -1..(AuctionTimeout + 1)
  BY <1>8, Typed DEF IInv
<1>10. asleep' \in BOOLEAN
  BY SMTT(30), <1>8, Typed DEF IInv
<1>11. elapsed' >= elapsed /\ requested' <= elapsed'
  BY <1>8, <1>9, Limits DEF IInv, Seen
<1> QED BY <1>7, <1>8, <1>9, <1>10, <1>11, OnwardIInv

\* The TEE server answers.
LEMMA TeeAnswerIInv ==
  ASSUME IInv, NEW state \in {"ok", "err"}, TeeAnswer(state)
  PROVE  IInv'
<1> USE DEF IInv
<1>1. /\ UNCHANGED <<options, pc, whitelist, request_id, deadline, elapsed, requested, is_assigned,
                     retrying, asleep, result, registered, requests, acked, lost>>
      /\ handle' = [handle EXCEPT !.state = state]
  BY DEF TeeAnswer, network
<1>2. /\ handle' \in [id : 0..Len(requests), state : {"none", "running", "ok", "err"}]
      /\ handle'.id = handle.id
  BY SMTT(30), <1>1, Typed
<1>3. TypeOK'
  BY <1>1, <1>2, Limits DEF TypeOK
<1>4. Rounds' /\ Count' /\ Seen' /\ Late'
  BY <1>1 DEF Rounds, Count, Seen, Late, TimedOut
<1>5. Outcome'
  BY <1>1, <1>2 DEF Outcome, GivenUp, TimedOut, Proof
<1> QED BY <1>3, <1>4, <1>5

\* A timer that counts up to a limit, and one that counts down below zero.
LEMMA Counters ==
  /\ \A n \in Int, limit \in Int :
       n <= limit + 1 => /\ CountUp(n, limit) \in n..(limit + 1)
                         /\ n <= limit => CountUp(n, limit) = n + 1
                         /\ n > limit => CountUp(n, limit) = n
  /\ \A n \in Int : n >= -1 => CountDown(n) \in -1..n /\ (n < 0 => CountDown(n) = n)
BY DEF CountUp, CountDown

\* Time goes on.
LEMMA TickIInv ==
  ASSUME IInv, Tick
  PROVE  IInv'
<1>1. /\ requests \in Seq(RequestType) /\ Len(requests) \in Nat
      /\ DOMAIN requests = 1..Len(requests)
  BY Typed DEF IInv
<1>2. /\ retrying \in 0..(RetryTimeout + 1) /\ deadline \in -1..Limit
      /\ elapsed \in 0..(Longest + 1) /\ requested \in -1..(AuctionTimeout + 1)
      /\ requested <= elapsed
  BY Typed DEF IInv, Seen
<1>3. \A i \in 1..Len(requests) :
        /\ [requests[i] EXCEPT !.deadline = CountDown(@)] \in RequestType
        /\ requests[i].deadline < 0 => CountDown(requests[i].deadline) < 0
        /\ requests[i] \in RequestType
  <2> SUFFICES ASSUME NEW i \in 1..Len(requests)
               PROVE  /\ [requests[i] EXCEPT !.deadline = CountDown(@)] \in RequestType
                      /\ requests[i].deadline < 0 => CountDown(requests[i].deadline) < 0
                      /\ requests[i] \in RequestType
    OBVIOUS
  <2>0. requests[i] \in RequestType
    BY <1>1, ElementOfSeq
  <2>1. requests[i] \in RequestType /\ requests[i].deadline \in -1..Limit
    BY <2>0 DEF RequestType
  <2>2. CountDown(requests[i].deadline) \in -1..Limit
    <3>1. \A d \in -1..Limit : CountDown(d) \in -1..Limit
      BY Limits DEF CountDown
    <3> QED BY <2>1, <3>1
  <2>3. requests[i].deadline < 0 => CountDown(requests[i].deadline) < 0
    BY DEF CountDown
  <2>4. [requests[i] EXCEPT !.deadline = CountDown(@)] \in RequestType
    BY <2>1, <2>2 DEF RequestType
  <2> QED BY <2>1, <2>3, <2>4
<1>4. /\ requests' = [i \in 1..Len(requests) |-> [requests[i] EXCEPT !.deadline = CountDown(@)]]
  BY <1>1 DEF Tick
<1>5. requests' \in Seq(RequestType) /\ Len(requests') = Len(requests)
  <2>1. requests' \in [1..Len(requests) -> RequestType]
    BY <1>3, <1>4
  <2> QED BY <1>1, <2>1
<1>6. Onward
  <2> SUFFICES ASSUME NEW i \in 1..Len(requests)
               PROVE  /\ requests'[i].whitelist = requests[i].whitelist
                      /\ requests'[i].status = requests[i].status
                      /\ requests[i].deadline < 0 => requests'[i].deadline < 0
    BY <1>5 DEF Onward
  <2>1. requests'[i] = [requests[i] EXCEPT !.deadline = CountDown(requests[i].deadline)]
    BY <1>4
  <2>2. requests[i] \in RequestType
    BY Zenon, <1>3
  <2>3. /\ requests'[i].whitelist = requests[i].whitelist
        /\ requests'[i].status = requests[i].status
        /\ requests'[i].deadline = CountDown(requests[i].deadline)
    BY <2>1, <2>2 DEF RequestType
  <2> QED BY Zenon, <1>3, <2>3
<1>7. /\ pc # "done"
      /\ UNCHANGED <<options, pc, whitelist, request_id, is_assigned, handle, result, registered,
                     acked, lost>>
      /\ asleep' \in BOOLEAN
  BY Zenon DEF Tick
<1>8. retrying' \in 0..(RetryTimeout + 1)
  BY <1>2, Limits, Counters DEF Tick
<1>9. deadline' \in -1..Limit
  BY <1>2, Limits, Counters DEF Tick
<1>10. /\ elapsed' \in 0..(Longest + 1) /\ elapsed' >= elapsed
       /\ elapsed' = IF Polling THEN CountUp(elapsed, Longest) ELSE elapsed
  BY <1>2, Limits, Counters DEF Tick
<1>11. /\ requested' \in -1..(AuctionTimeout + 1)
       /\ requested' = IF Polling /\ requested >= 0 THEN CountUp(requested, AuctionTimeout)
                       ELSE requested
  BY <1>2, Limits, Counters DEF Tick
<1>12. requested' <= elapsed'
  <2>1. CASE Polling /\ requested >= 0
    <3>1. CASE elapsed > Longest
      BY SMTT(30), <1>2, <1>10, <1>11, <2>1, <3>1, Limits
    <3>2. CASE elapsed <= Longest
      <4>1. elapsed' = elapsed + 1
        BY SMTT(30), <1>2, <1>10, <2>1, <3>2, Limits, Counters
      <4>2. requested' <= requested + 1
        BY SMTT(30), <1>2, <1>11, <2>1, Limits, Counters
      <4> QED BY SMTT(30), <1>2, <1>11, <4>1, <4>2, Limits
    <3> QED BY SMTT(30), <1>2, <3>1, <3>2, Limits
  <2>2. CASE ~ (Polling /\ requested >= 0)
    BY <1>2, <1>10, <1>11, <2>2, Limits
  <2> QED BY <2>1, <2>2
<1> QED BY SMTT(30), <1>6, <1>7, <1>8, <1>9, <1>10, <1>11, <1>12, OnwardIInv

-----------------------------------------------------------------------------
\* Every step keeps the invariant.
LEMMA NextIInv == IInv /\ [Next]_vars => IInv'
<1> SUFFICES ASSUME IInv, [Next]_vars PROVE IInv'
  OBVIOUS
<1>1. CASE Client
  BY SMTT(30), <1>1, BeforeIInv, CheckStrategyIInv, SendRequestIInv, WaitProofIInv, StatusIInv,
     ProcessIInv, DownloadIInv, FallbackIInv, TeeProofIInv DEF Client, Transfer, Step
<1>2. ASSUME NEW i \in DOMAIN requests, NEW status \in Statuses, Progress(i, status) PROVE IInv'
  BY <1>2, ProgressIInv
<1>3. ASSUME NEW state \in {"ok", "err"}, TeeAnswer(state) PROVE IInv'
  BY <1>3, TeeAnswerIInv
<1>4. CASE Tick
  BY <1>4, TickIInv
<1>5. CASE UNCHANGED vars
  <2>1. UNCHANGED <<options, pc, retrying, asleep, client, registered, requests, acked, lost>>
    BY <1>5 DEF vars, network
  <2>2. retrying' \in 0..(RetryTimeout + 1)
    BY <2>1, Typed DEF IInv
  <2>3. registered' \in BOOLEAN /\ asleep' \in BOOLEAN
    BY <2>1, Typed DEF IInv
  <2> QED BY <2>1, <2>2, <2>3, Quiet
<1> QED BY <1>1, <1>2, <1>3, <1>4, <1>5 DEF Next

\* The invariant holds of every run of prove_impl.
LEMMA Invariant == Spec => []IInv
BY InitIInv, NextIInv, PTL DEF Spec

\* The locals of prove_impl and the requests keep their types, and timers stop.
THEOREM TypeCorrect == Spec => []TypeOK
<1>1. IInv => TypeOK
  BY DEF IInv
<1> QED BY <1>1, Invariant, PTL

\* prove_impl returns the proof of the last request it made, and with 2FA the TEE
\* proof of that request, however many requests were lost or given up before.
THEOREM ReturnsOwnProof == Spec => []OwnProof
<1>1. IInv => OwnProof
  BY DEF IInv, OwnProof, Outcome, Rounds
<1> QED BY <1>1, Invariant, PTL

\* Without 2FA a proof is never returned after the deadline of its request.
THEOREM ReturnsInTime == Spec => []ProofInTime
<1>1. IInv => ProofInTime
  BY DEF IInv, ProofInTime, Outcome
<1> QED BY <1>1, Invariant, PTL

\* prove_impl makes at most two requests that it learns of, the second one only
\* after an open auction and for the fallback provers; the others on the network
\* are the lost ones.
THEOREM AtMostOneFallback == Spec => []FallbackOnce
<1>1. ASSUME IInv PROVE FallbackOnce
  <2> USE <1>1 DEF IInv
  <2>1. Len(requests) = Cardinality(acked) + lost
    BY DEF Count
  <2>2. acked \subseteq Nat /\ request_id \in Nat
    BY Typed
  <2>3. Cardinality(acked) <= 2
    <3>1. CASE acked \subseteq {request_id}
      <4>1. IsFiniteSet({request_id}) /\ Cardinality({request_id}) = 1
        BY SMTT(30), FS_Singleton
      <4>2. Cardinality(acked) <= 1
        BY <3>1, <4>1, FS_Subset
      <4> QED BY <4>2, AckedFinite
    <3>2. ASSUME NEW i \in acked, i # request_id PROVE Cardinality(acked) <= 2
      <4>1. acked \subseteq {request_id} \cup {i}
        BY <3>2 DEF Rounds
      <4>2. /\ IsFiniteSet({request_id} \cup {i})
            /\ Cardinality({request_id} \cup {i}) = 2
        <5>1. IsFiniteSet({request_id}) /\ Cardinality({request_id}) = 1
          BY Zenon, FS_Singleton
        <5>2. i \notin {request_id}
          BY <3>2
        <5> QED BY <5>1, <5>2, FS_AddElement
      <4> QED BY <4>1, <4>2, FS_Subset
    <3> QED BY <3>1, <3>2
  <2>4. ASSUME NEW i \in acked, NEW j \in acked, i < j
        PROVE  /\ options.auction /\ options.whitelist = "none"
               /\ <<requests[i].whitelist, requests[j].whitelist>> = <<"none", "fallback">>
    <3>1. i # request_id
      BY <2>2, <2>4 DEF Rounds
    <3>2. j = request_id
      BY <2>2, <2>4, <3>1 DEF Rounds
    <3> QED BY <3>1, <3>2 DEF Rounds
  <2> QED BY <2>1, <2>3, <2>4 DEF FallbackOnce
<1> QED BY <1>1, Invariant, PTL

\* The error prove_impl returns is true of the request it names.
THEOREM ReturnsTrueErrors == Spec => []ErrorsTrue
<1>1. IInv => ErrorsTrue
  BY DEF IInv, ErrorsTrue, Outcome, GivenUp
<1> QED BY <1>1, Invariant, PTL

\* A request that was seen assigned is replaced by another one only if it is late or
\* unfulfillable.
THEOREM KeepsAssigned == Spec => AssignedKept
<1>1. ASSUME IInv, [Next]_vars
      PROVE  [request_id' # request_id /\ is_assigned =>
                TimedOut \/ Overdue \/ requests[request_id].status = "Unfulfillable"]_vars
  <2> SUFFICES ASSUME request_id' # request_id, is_assigned
               PROVE  TimedOut \/ Overdue \/ requests[request_id].status = "Unfulfillable"
    OBVIOUS
  <2>1. pc \in Pre
    <3>1. CASE SendRequest
      BY <3>1 DEF SendRequest, Pre
    <3>2. CASE ~ SendRequest
      BY <1>1, <3>2, Zenon DEF Next, vars, Client, Transfer, Step, GetProgram,
           ProgramArtifact, CreateProgram, GetExecutionLimits, GetProofRequestParams,
           CheckStrategy, StdinArtifact, WaitProof, GetProofRequestStatus,
           ProcessProofStatus, Process, Sleep, DownloadArtifact, ToTee,
           GetProversByUptime, TeeProof, Call, RetryOperation, Return, Fail, Progress, TeeAnswer,
           Tick, client
    <3> QED BY <3>1, <3>2
  <2> QED BY <1>1, <2>1 DEF IInv, Late, Overdue
<1> QED BY <1>1, Invariant, PTL DEF Spec, AssignedKept
=============================================================================
