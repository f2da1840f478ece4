---------------------------- MODULE NetworkProver ----------------------------
(***************************************************************************)
(* The network prover of crates/sdk/src/network: `prove_impl` registers    *)
(* the program, requests a proof, polls for it, and asks the high          *)
(* availability provers when an open auction fails. The network, the       *)
(* artifact store and the TEE server are external: they answer any call,   *)
(* refuse it, or fail in a way the client retries, and an answer can be    *)
(* lost after the call took effect.                                        *)
(*                                                                         *)
(* Time is a set of timers. Tick advances all of them; each stops one past *)
(* the limit it is compared with. A client that sleeps waits for a tick.   *)
(***************************************************************************)
EXTENDS Integers, Sequences, FiniteSets

CONSTANTS Timeout,         \* options.timeout, if there is one
          GasTimeout,      \* calculate_timeout_from_gas_limit
          AuctionTimeout,
          RetryTimeout,    \* DEFAULT_RETRY_TIMEOUT
          MaxLost          \* bound on the lost answers to request_proof

ASSUME TimeoutsAssumption ==
  {Timeout, GasTimeout, AuctionTimeout, RetryTimeout, MaxLost} \subseteq Nat

VARIABLES
  options,     \* the arguments of prove_impl and the feature of the build
  pc,          \* the call the client is in, or the status it was answered
  whitelist,   \* the local whitelist: none, the user's, or the fallback
  request_id,  \* the request of this round, zero if there is none yet
  deadline,    \* ticks left to the deadline of the request to send
  elapsed,     \* since wait_proof began
  requested,   \* since it first saw the request unassigned, or -1
  is_assigned, \* it has seen the request assigned
  retrying,    \* since the first try of the current call
  asleep,
  handle,      \* the task that gets the TEE proof, of the request `id`
  result,
  registered,  \* network: the program is there
  requests,    \* network: the requests, in order of arrival
  acked,       \* the requests whose arrival the client knows of
  lost         \* how many answers to request_proof were lost

client == <<whitelist, request_id, deadline, elapsed, requested, is_assigned, handle, result>>

network == <<registered, requests, acked, lost>>

vars == <<options, pc, retrying, asleep, client, network>>

-----------------------------------------------------------------------------
Statuses == {"Requested", "Assigned", "Fulfilled", "Unfulfillable", "Unexecutable"}

Whitelists == {"none", "user", "fallback"}

Options ==
  [timeout : BOOLEAN, whitelist : {"none", "user"}, tee_2fa : BOOLEAN,
   auction : BOOLEAN, reserved_capacity : BOOLEAN]

NoHandle == [id |-> 0, state |-> "none"]

Pending == [kind |-> "pending", id |-> 0, tee |-> 0]

Limit == IF options.timeout THEN Timeout ELSE GasTimeout

Init ==
  /\ options \in Options
  /\ pc = "get_program"
  /\ whitelist = options.whitelist
  /\ request_id = 0 /\ deadline = 0 /\ elapsed = 0 /\ requested = -1 /\ is_assigned = FALSE
  /\ retrying = 0 /\ asleep = FALSE
  /\ handle = NoHandle
  /\ result = Pending
  /\ registered \in BOOLEAN
  /\ requests = <<>> /\ acked = {} /\ lost = 0

-----------------------------------------------------------------------------
(* How a call ends. *)

RetryInTime == retrying <= RetryTimeout

Goto(next) == pc' = next /\ retrying' = 0 /\ asleep' = FALSE

Err(kind) == [kind |-> kind, id |-> request_id, tee |-> 0]

Return(r) ==
  /\ Goto("done")
  /\ result' = r
  /\ UNCHANGED <<options, network, whitelist, request_id, deadline, elapsed, requested,
                 is_assigned, handle>>

\* retry_operation: a transient error is tried again after a pause, unless the
\* backoff has no time left, and any other error is returned.
RetryOperation(in_time) ==
  \/ /\ in_time
     /\ asleep' = TRUE
     /\ UNCHANGED <<options, pc, retrying, client, network>>
  \/ Return(Err("rpc"))

\* A call that changes nothing here: it answers, or fails.
Call(next) ==
  \/ Goto(next) /\ UNCHANGED <<options, client, network>>
  \/ RetryOperation(RetryInTime)

-----------------------------------------------------------------------------
(* request_proof_impl. *)

GetProgram ==
  /\ pc = "get_program"
  /\ Call(IF registered THEN "get_execution_limits" ELSE "program_artifact")

\* create_artifact_with_content, for the program and for its input.
ProgramArtifact == pc = "program_artifact" /\ Call("create_program")

CreateProgram ==
  /\ pc = "create_program"
  /\ \/ /\ registered' = TRUE
        /\ \/ Goto("get_execution_limits")
           \/ RetryInTime /\ asleep' = TRUE /\ UNCHANGED <<pc, retrying>>
        /\ UNCHANGED <<options, client, requests, acked, lost>>
     \/ RetryOperation(RetryInTime)

\* The simulation that finds the limits, if it is not skipped, can fail.
GetExecutionLimits ==
  /\ pc = "get_execution_limits"
  /\ \/ Goto(IF options.reserved_capacity THEN "request_proof" ELSE "get_proof_request_params")
        /\ UNCHANGED <<options, client, network>>
     \/ Return(Err("SimulationFailed"))

GetProofRequestParams == pc = "get_proof_request_params" /\ Call("request_proof")

\* NetworkProver::request_proof and the start of NetworkClient::request_proof:
\* the strategy must be one of the build, and the deadline is set here.
CheckStrategy ==
  /\ pc = "request_proof"
  /\ IF options.auction = options.reserved_capacity
     THEN Return(Err("strategy"))
     ELSE /\ Goto("stdin_artifact")
          /\ deadline' = Limit
          /\ UNCHANGED <<options, network, whitelist, request_id, elapsed, requested,
                         is_assigned, handle, result>>

StdinArtifact == pc = "stdin_artifact" /\ Call("send_request")

Request == [whitelist |-> whitelist, deadline |-> deadline, status |-> "Requested"]

SpawnOnce(id) ==
  IF options.tee_2fa /\ handle = NoHandle THEN [id |-> id, state |-> "running"] ELSE handle

\* With 2FA every request has a task of its own; the one of an earlier request
\* is detached when its handle is dropped.
Spawn(id) == IF options.tee_2fa THEN [id |-> id, state |-> "running"] ELSE NoHandle

WaitOn(id) ==
  /\ request_id' = id
  /\ handle' = Spawn(id)
  /\ elapsed' = 0 /\ is_assigned' = FALSE
  /\ UNCHANGED requested

WaitFrom(id) ==
  /\ request_id' = id
  /\ handle' = Spawn(id)
  /\ elapsed' = 0 /\ requested' = -1 /\ is_assigned' = FALSE

\* Every try fetches a nonce, so a try after a lost answer is a new request.
SendRequest ==
  /\ pc = "send_request"
  /\ \/ /\ requests' = Append(requests, Request)
        /\ acked' = acked \cup {Len(requests) + 1}
        /\ Goto("wait_proof")
        /\ WaitFrom(Len(requests) + 1)
        /\ UNCHANGED <<options, registered, lost, whitelist, deadline, result>>
     \/ /\ lost < MaxLost
        /\ lost' = lost + 1
        /\ requests' = Append(requests, Request)
        /\ \/ RetryInTime /\ asleep' = TRUE /\ UNCHANGED <<pc, retrying, result>>
           \/ Goto("done") /\ result' = Err("rpc")
        /\ UNCHANGED <<options, registered, acked, whitelist, request_id, deadline, elapsed,
                       requested, is_assigned, handle>>
     \/ RetryOperation(RetryInTime)

-----------------------------------------------------------------------------
(* wait_proof. *)

FailAgain(kind) ==
  IF /\ kind \in {"RequestUnfulfillable", "RequestTimedOut", "RequestAuctionTimedOut"}
     /\ ~ options.reserved_capacity /\ options.auction
  THEN /\ Goto("get_provers_by_uptime")
       /\ result' = Err(kind)
       /\ UNCHANGED <<options, network, whitelist, request_id, deadline, elapsed, requested,
                      is_assigned, handle>>
  ELSE Return(Err(kind))

\* The end of wait_proof with an error: prove_impl looks for fallback provers if
\* the request was an open auction, and keeps the error in case there are none.
Fail(kind) ==
  IF /\ kind \in {"RequestUnfulfillable", "RequestTimedOut", "RequestAuctionTimedOut"}
     /\ ~ options.reserved_capacity /\ options.auction /\ whitelist = "none"
  THEN /\ Goto("get_provers_by_uptime")
       /\ result' = Err(kind)
       /\ UNCHANGED <<options, network, whitelist, request_id, deadline, elapsed, requested,
                      is_assigned, handle>>
  ELSE Return(Err(kind))

TimedOut == options.timeout /\ elapsed > Timeout

WaitProof ==
  /\ pc = "wait_proof"
  /\ IF TimedOut THEN Fail("RequestTimedOut")
     ELSE Goto("get_proof_request_status") /\ UNCHANGED <<options, client, network>>

\* The status is asked for until remaining_timeout is over, or for the default
\* time if the user gave no timeout.
StatusInTime == IF options.timeout THEN ~ TimedOut ELSE RetryInTime

Overdue == requests[request_id].deadline < 0

Sleep(seen) ==
  /\ pc' = "wait_proof" /\ retrying' = 0 /\ asleep' = TRUE
  /\ is_assigned' = (is_assigned \/ seen = "Assigned")
  /\ requested' = IF seen = "Requested" /\ requested < 0 THEN 0 ELSE requested
  /\ UNCHANGED <<options, network, whitelist, request_id, deadline, elapsed, handle, result>>

ProcessNoDeadline(seen) ==
  CASE seen = "Unexecutable" -> Return(Err("RequestUnexecutable"))
    [] seen = "Unfulfillable" -> Fail("RequestUnfulfillable")
    [] seen = "Requested" /\ requested > AuctionTimeout -> Fail("RequestAuctionTimedOut")
    [] OTHER -> Sleep(seen)

ProcessAnyAuction(seen) ==
  IF Overdue THEN Fail("RequestTimedOut")
  ELSE CASE seen = "Unexecutable" -> Return(Err("RequestUnexecutable"))
         [] seen = "Unfulfillable" -> Fail("RequestUnfulfillable")
         [] seen \in {"Requested", "Assigned"} /\ requested > AuctionTimeout ->
              Fail("RequestAuctionTimedOut")
         [] OTHER -> Sleep(seen)

\* What process_proof_status and the loop make of an answer without a proof.
Process(seen) ==
  IF Overdue THEN Fail("RequestTimedOut")
  ELSE CASE seen = "Unexecutable" -> Return(Err("RequestUnexecutable"))
         [] seen = "Unfulfillable" -> Fail("RequestUnfulfillable")
         [] seen = "Requested" /\ requested > AuctionTimeout -> Fail("RequestAuctionTimedOut")
         [] OTHER -> Sleep(seen)

\* The answer is a status: from then on the client is where it handles it.
GetProofRequestStatus ==
  /\ pc = "get_proof_request_status"
  /\ \/ Goto(requests[request_id].status) /\ UNCHANGED <<options, client, network>>
     \/ RetryOperation(StatusInTime)

ProcessProofStatus == pc \in Statuses \ {"Fulfilled"} /\ Process(pc)

Proof == [kind |-> "proof", id |-> request_id, tee |-> 0]

ToTee ==
  /\ Goto("tee_proof")
  /\ result' = Proof
  /\ UNCHANGED <<options, network, whitelist, request_id, deadline, elapsed, requested,
                 is_assigned, handle>>

\* The proof is downloaded before the deadline is looked at.
DownloadArtifact ==
  /\ pc = "Fulfilled"
  /\ \/ Overdue /\ Fail("RequestTimedOut")
     \/ ~ Overdue /\ options.tee_2fa /\ ToTee
     \/ ~ Overdue /\ ~ options.tee_2fa /\ Return(Proof)
     \/ RetryOperation(RetryInTime)

\* The rest of prove_impl: the list of provers is not retried, and an empty one
\* returns the error of the request.
GetProversByUptime ==
  /\ pc = "get_provers_by_uptime"
  /\ \/ /\ Goto("get_program")
        /\ whitelist' = "fallback"
        /\ result' = Pending
        /\ UNCHANGED <<options, network, request_id, deadline, elapsed, requested, is_assigned,
                       handle>>
     \/ Return(result)
     \/ Return(Err("rpc"))

TeeProof ==
  /\ pc = "tee_proof"
  /\ \/ handle.state = "ok" /\ Return([result EXCEPT !.tee = handle.id])
     \/ handle.state = "err" /\ Return(Err("tee"))

\* The artifact store takes or gives an artifact: the HTTP client has no timeout for a
\* request, and the backoff is looked at between the tries only.
Transfer == ~ asleep /\ (ProgramArtifact \/ StdinArtifact \/ DownloadArtifact)

\* What the client does by itself, and the gRPC calls, which configure_endpoint gives a
\* timeout.
Step ==
  /\ ~ asleep
  /\ \/ GetProgram \/ CreateProgram \/ GetExecutionLimits \/ GetProofRequestParams
     \/ CheckStrategy \/ SendRequest \/ WaitProof \/ GetProofRequestStatus
     \/ ProcessProofStatus \/ GetProversByUptime \/ TeeProof

Client == Transfer \/ Step

-----------------------------------------------------------------------------
(* The network, the TEE server and time, for as long as the call runs. *)

\* A request moves on; Fulfilled, Unfulfillable and Unexecutable are final.
Progress(i, status) ==
  /\ pc # "done"
  /\ \/ requests[i].status = "Requested" /\ status \in Statuses \ {"Requested", "Fulfilled"}
     \/ requests[i].status = "Assigned" /\ status \in {"Fulfilled", "Unfulfillable"}
  /\ requests' = [requests EXCEPT ![i].status = status]
  /\ UNCHANGED <<options, pc, retrying, asleep, client, registered, acked, lost>>

TeeAnswer(state) ==
  /\ pc # "done" /\ handle.state = "running"
  /\ handle' = [handle EXCEPT !.state = state]
  /\ UNCHANGED <<options, pc, whitelist, request_id, deadline, elapsed, requested, is_assigned,
                 retrying, asleep, result, network>>

Polling == pc \in {"wait_proof", "get_proof_request_status"} \cup Statuses

\* elapsed is compared with the timeout, and says how old an auction is.
Longest == IF Timeout < AuctionTimeout THEN AuctionTimeout ELSE Timeout

CountUp(n, limit) == IF n > limit THEN n ELSE n + 1

CountDown(n) == IF n < 0 THEN n ELSE n - 1

Tick ==
  /\ pc # "done"
  /\ asleep' = FALSE
  /\ retrying' = CountUp(retrying, RetryTimeout)
  /\ deadline' = IF pc \in {"stdin_artifact", "send_request"} THEN CountDown(deadline) ELSE deadline
  /\ elapsed' = IF Polling THEN CountUp(elapsed, Longest) ELSE elapsed
  /\ requested' = IF Polling /\ requested >= 0 THEN CountUp(requested, AuctionTimeout)
                  ELSE requested
  /\ requests' = [i \in DOMAIN requests |->
                    [requests[i] EXCEPT !.deadline = CountDown(@)]]
  /\ UNCHANGED <<options, pc, whitelist, request_id, is_assigned, handle, result, registered,
                 acked, lost>>

Next ==
  \/ Client
  \/ \E i \in DOMAIN requests, status \in Statuses : Progress(i, status)
  \/ \E state \in {"ok", "err"} : TeeAnswer(state)
  \/ Tick

\* The task that runs prove_impl is scheduled, a gRPC call is answered or times out,
\* and time goes on. Nothing is asked of the artifact store, of the TEE server or of
\* the progress of a request.
Spec == Init /\ [][Next]_vars /\ WF_vars(Step) /\ WF_vars(Tick)

-----------------------------------------------------------------------------
(* Properties. *)

Kinds == {"pending", "proof", "rpc", "tee", "strategy", "SimulationFailed", "RequestTimedOut",
          "RequestAuctionTimedOut", "RequestUnfulfillable", "RequestUnexecutable"}

\* The variables have the types of prove_impl's locals and of the requests, and every
\* timer stays between its start and one past its limit.
TypeOK ==
  /\ options \in Options
  /\ pc \in {"get_program", "program_artifact", "create_program", "get_execution_limits",
             "get_proof_request_params", "request_proof", "stdin_artifact", "send_request",
             "wait_proof", "get_proof_request_status", "tee_proof", "get_provers_by_uptime",
             "done"} \cup Statuses
  /\ whitelist \in Whitelists
  /\ request_id \in 0..Len(requests)
  /\ deadline \in -1..Limit
  /\ elapsed \in 0..(Longest + 1) /\ requested \in -1..(AuctionTimeout + 1)
  /\ retrying \in 0..(RetryTimeout + 1)
  /\ is_assigned \in BOOLEAN /\ asleep \in BOOLEAN /\ registered \in BOOLEAN
  /\ handle \in [id : 0..Len(requests), state : {"none", "running", "ok", "err"}]
  /\ result \in [kind : Kinds, id : 0..Len(requests), tee : 0..Len(requests)]
  /\ requests \in Seq([whitelist : Whitelists, deadline : -1..Limit, status : Statuses])
  /\ acked \subseteq DOMAIN requests
  /\ lost \in 0..MaxLost

\* The proof prove_impl returns is the one of the last request it made, and with
\* 2FA its TEE proof is of the same request, whatever was tried before.
OwnProof ==
  pc = "done" /\ result.kind = "proof" =>
    /\ result.id \in acked /\ \A i \in acked : i <= result.id
    /\ requests[result.id].status = "Fulfilled"
    /\ result.tee = IF options.tee_2fa THEN result.id ELSE 0

\* Without 2FA, a proof is returned before the deadline of its request: the time
\* its status and its download took included.
ProofInTime ==
  pc = "done" /\ result.kind = "proof" /\ ~ options.tee_2fa =>
    requests[result.id].deadline >= 0

\* Every request on the network is one the client knows of, or one whose answer
\* was lost. It knows of two at most, and of two only if the first was an open
\* auction and the second is for the fallback provers.
FallbackOnce ==
  /\ Len(requests) = Cardinality(acked) + lost
  /\ Cardinality(acked) <= 2
  /\ \A i, j \in acked : i < j =>
       /\ options.auction /\ options.whitelist = "none"
       /\ <<requests[i].whitelist, requests[j].whitelist>> = <<"none", "fallback">>

\* The error prove_impl returns is true of the request it names, at the time it
\* returns: even after fallback provers were looked for in vain.
ErrorsTrue ==
  pc = "done" =>
    LET r == requests[result.id] IN
    /\ result.kind = "RequestUnfulfillable" => r.status = "Unfulfillable"
    /\ result.kind = "RequestUnexecutable" => r.status = "Unexecutable"
    /\ result.kind = "RequestTimedOut" => TimedOut \/ r.deadline < 0
    /\ result.kind = "RequestAuctionTimedOut" => elapsed > AuctionTimeout

\* A request that was seen assigned is given up for another one only if it became
\* unfulfillable or late, never for the time the auction took.
AssignedKept ==
  [][request_id' # request_id /\ is_assigned =>
       TimedOut \/ Overdue \/ requests[request_id].status = "Unfulfillable"]_vars

\* prove_impl returns, with no timeout given too and whatever becomes of its request.
\* What it can wait for without end is the answer of the TEE server, and the artifact
\* store in an upload of the program or its input or in the download of the proof.
Returns ==
  \/ <>(pc = "done")
  \/ <>[](pc = "tee_proof")
  \/ <>[](pc \in {"program_artifact", "stdin_artifact", "Fulfilled"})
=============================================================================
