------------------------------ MODULE CudaClient ------------------------------
(***************************************************************************)
(* The client of the CUDA prover (crates/cuda) for one device, in its      *)
(* native build: the connection all provers and proving keys of a process  *)
(* share, the calls they make on it, and the server process behind it.     *)
(* A caller may drop the future of a call at any await. Every wait for a   *)
(* tokio mutex is a queue, whose head has the mutex. The server, which is  *)
(* not in the repository, answers requests in order, gives every key it    *)
(* sets up an id of its own, and may crash.                                *)
(***************************************************************************)
EXTENDS Naturals, Sequences, FiniteSets

CONSTANTS Users,        \* tasks that own a CudaProver
          MaxKeys,      \* bounds: proving keys set up,
          MaxCalls,     \* calls,
          MaxServers,   \* servers started,
          MaxFaults,    \* futures dropped, servers crashed and requests too long, together
          Lengths,      \* of the requests, in bytes
          LenLimit      \* 2^32: the length goes before a request as a u32

VARIABLES
  global,    \* the queue for the lock of CLIENT
  weak,      \* the entry of CLIENT: the last client connected, or 0
  clients,   \* every CudaClientInner that was made
  servers,   \* every server process that was started
  session,   \* the client of the SessionKey of every key, or 0
  task,      \* the users, and the tasks that destroy keys, by key
  ids,       \* ids given to keys
  calls,     \* calls made
  dropped,   \* futures dropped
  crashed    \* servers crashed

vars == <<global, weak, clients, servers, session, task, ids, calls, dropped, crashed>>

Keys == 1..MaxKeys

\* The calls of prove_impl, in order; the mode says after which it returns.
Stages == <<"Core", "Compress", "Shrink", "Wrap">>

Idle ==
  [pc |-> "idle", client |-> 0, child |-> 0, key |-> 0, stage |-> 0, call |-> 0,
   kind |-> "none", got |-> "none"]

\* A task after a call without a result.
Ended(t) == [t EXCEPT !.pc = "idle", !.stage = 0, !.call = 0, !.kind = "none", !.got = "none"]

Client(child, server) ==
  [child |-> child, server |-> server, stream |-> <<>>, in |-> <<>>, out |-> <<>>,
   torn |-> FALSE, long |-> FALSE, stale |-> FALSE, gone |-> FALSE]

\* Whether an Arc of client c is left: in a prover, a proving key or a destroy task.
Live(c) ==
  \E p \in DOMAIN task :
    task[p].client = c \/ (task[p].key # 0 /\ session[task[p].key] = c)

Kill(s) == [servers EXCEPT ![s].running = FALSE]

Up(c) == servers[clients[c].server].running

Faults == dropped + crashed + Cardinality({c \in DOMAIN clients : clients[c].long})

-----------------------------------------------------------------------------
Init ==
  /\ global = <<>> /\ weak = 0
  /\ clients = <<>> /\ servers = <<>>
  /\ session = [k \in Keys |-> 0]
  /\ task = [p \in Users \cup Keys |-> Idle]
  /\ ids = 0 /\ calls = 0 /\ dropped = 0 /\ crashed = 0

-----------------------------------------------------------------------------
(* Connecting. *)

Connect(u) ==
  /\ task[u].pc = "idle" /\ task[u].client = 0
  /\ global' = Append(global, u)
  /\ task' = [task EXCEPT ![u].pc = "connect"]
  /\ UNCHANGED <<weak, clients, servers, session, ids, calls, dropped, crashed>>

UpgradeUnlocked(u) ==
  /\ task[u].pc = "connect" /\ Head(global) = u
  /\ IF weak # 0 /\ Live(weak)
     THEN task' = [task EXCEPT ![u].pc = "idle", ![u].client = weak]
     ELSE task' = [task EXCEPT ![u].pc = "start"]
  /\ global' = Tail(global)
  /\ UNCHANGED <<weak, clients, servers, session, ids, calls, dropped, crashed>>

\* "See if theres a global client still alive."
Upgrade(u) ==
  /\ task[u].pc = "connect" /\ Head(global) = u
  /\ IF weak # 0 /\ Live(weak)
     THEN /\ task' = [task EXCEPT ![u].pc = "idle", ![u].client = weak]
          /\ global' = Tail(global)
     ELSE /\ task' = [task EXCEPT ![u].pc = "start"]
          /\ UNCHANGED global
  /\ UNCHANGED <<weak, clients, servers, session, ids, calls, dropped, crashed>>

StartServer(u) ==
  /\ task[u].pc = "start" /\ Len(servers) < MaxServers
  /\ servers' = Append(servers, [running |-> TRUE, keys |-> {}])
  /\ task' = [task EXCEPT ![u].pc = "attach", ![u].child = Len(servers')]
  /\ UNCHANGED <<global, weak, clients, session, ids, calls, dropped, crashed>>

\* connect_inner: whichever server of the device listens at the socket's path.
Attach(u, s) ==
  /\ task[u].pc = "attach" /\ servers[s].running
  /\ clients' = Append(clients, Client(task[u].child, s))
  /\ weak' = Len(clients')
  /\ task' = [task EXCEPT ![u].pc = "idle", ![u].client = Len(clients'), ![u].child = 0]
  /\ global' = SelectSeq(global, LAMBDA v : v # u)
  /\ UNCHANGED <<servers, session, ids, calls, dropped, crashed>>

\* The server does not start, nobody listens, or the future is dropped: the guard
\* of the lock and the child, which has kill_on_drop, go with it.
ConnectFails(u) ==
  /\ task[u].pc \in {"connect", "start", "attach"}
  /\ servers' = IF task[u].pc = "attach" THEN Kill(task[u].child) ELSE servers
  /\ task' = [task EXCEPT ![u].pc = "idle", ![u].child = 0]
  /\ global' = SelectSeq(global, LAMBDA v : v # u)
  /\ UNCHANGED <<weak, clients, session, ids, calls, dropped, crashed>>

-----------------------------------------------------------------------------
(* send_and_recv, on the stream of the task's client. *)

\* The call a user may make: setup, or the next one of prove_impl.
Callable(u, kind) ==
  \/ kind = "Setup" /\ task[u].key = 0
  \/ task[u].key # 0 /\ task[u].stage < Len(Stages) /\ kind = Stages[task[u].stage + 1]

Call(u, kind) ==
  /\ task[u].pc = "idle" /\ task[u].client # 0 /\ calls < MaxCalls
  /\ Callable(u, kind)
  /\ calls' = calls + 1
  /\ task' = [task EXCEPT ![u].pc = "lock", ![u].kind = kind, ![u].call = calls',
                          ![u].got = "none"]
  /\ clients' = [clients EXCEPT ![task[u].client].stream = Append(@, u)]
  /\ UNCHANGED <<global, weak, servers, session, ids, dropped, crashed>>

HasStreamAny(p) == task[p].client # 0 /\ clients[task[p].client].stream # <<>>

HasStream(p) ==
  task[p].client # 0 /\ LET s == clients[task[p].client].stream IN s # <<>> /\ Head(s) = p

\* The task returns from the call and gives the stream back.
Finish(p, t, rest) ==
  /\ task' = [task EXCEPT ![p] = IF p \in Keys THEN [t EXCEPT !.client = 0, !.key = 0] ELSE t]
  /\ clients' = [clients EXCEPT ![task[p].client].stream = Tail(@), ![task[p].client].out = rest]

Fail(p) ==
  /\ Finish(p, Ended(task[p]), clients[task[p].client].out)
  /\ UNCHANGED <<global, weak, servers, session, ids, calls, dropped, crashed>>

\* The length of the request is written, and then the request. The message after a
\* length that does not fit is read as a shorter one and some bytes that are none.
\* The request to destroy a key is its id.
WriteLen(p, len) ==
  /\ task[p].pc = "lock" /\ HasStream(p)
  /\ len >= LenLimit => p \in Users /\ Faults < MaxFaults
  /\ IF Up(task[p].client)
     THEN /\ task' = [task EXCEPT ![p].pc = "body"]
          /\ clients' = [clients EXCEPT ![task[p].client].long = @ \/ len % LenLimit # len]
          /\ UNCHANGED <<global, weak, servers, session, ids, calls, dropped, crashed>>
     ELSE Fail(p)

Request(p) == [by |-> p, call |-> task[p].call, kind |-> task[p].kind, key |-> task[p].key]

WriteBody(p) ==
  /\ task[p].pc = "body"
  /\ IF Up(task[p].client)
     THEN /\ task' = [task EXCEPT ![p].pc = "recv"]
          /\ clients' = [clients EXCEPT ![task[p].client].in = Append(@, Request(p))]
          /\ UNCHANGED <<global, weak, servers, session, ids, calls, dropped, crashed>>
     ELSE Fail(p)

ReadLenNoEnd(p) ==
  /\ task[p].pc = "recv" /\ HasStream(p)
  /\ ~ clients[task[p].client].torn /\ clients[task[p].client].out # <<>>
  /\ task' = [task EXCEPT ![p].pc = "recv_body"]
  /\ UNCHANGED <<global, weak, clients, servers, session, ids, calls, dropped, crashed>>

\* The length of the response. A stream that was left in the middle of a message, or
\* had a wrong length, yields a length and bytes that do not deserialize.
ReadLen(p) ==
  /\ task[p].pc = "recv" /\ HasStream(p)
  /\ LET c == clients[task[p].client] IN
     \/ /\ ~ (c.torn \/ c.long) /\ c.out # <<>>
        /\ task' = [task EXCEPT ![p].pc = "recv_body"]
        /\ UNCHANGED <<global, weak, clients, servers, session, ids, calls, dropped, crashed>>
     \/ /\ c.torn \/ c.long \/ (c.out = <<>> /\ ~ Up(task[p].client))
        /\ Fail(p)

\* The response, into_result, and the caller's match on its type.
Returned(p, r) ==
  LET t == Ended(task[p])
      got == IF r.by = p /\ r.call = task[p].call THEN "own" ELSE "other"
  IN  CASE r.kind # task[p].kind -> t
        [] r.kind = "Setup" -> [t EXCEPT !.key = r.key, !.got = got]
        [] OTHER -> [t EXCEPT !.stage = task[p].stage + 1, !.got = got]

ReadBody(p) ==
  /\ task[p].pc = "recv_body" /\ HasStream(p)
  /\ LET r == Head(clients[task[p].client].out)
         t == Returned(p, r)
     IN  /\ Finish(p, t, Tail(clients[task[p].client].out))
         /\ session' = IF t.got # "none" /\ r.kind = "Setup"
                       THEN [session EXCEPT ![r.key] = task[p].client] ELSE session
  /\ UNCHANGED <<global, weak, servers, ids, calls, dropped, crashed>>

\* The server went while it was writing the response.
ReadBodyFails(p) == task[p].pc = "recv_body" /\ ~ Up(task[p].client) /\ Fail(p)

-----------------------------------------------------------------------------
(* Drops. *)

\* A future of a call is dropped. In the middle of a message the rest of it stays
\* unwritten or unread; between the two messages the response will be left.
DropFuture(u) ==
  /\ task[u].pc \in {"lock", "body", "recv", "recv_body"} /\ Faults < MaxFaults
  /\ dropped' = dropped + 1
  /\ clients' = [clients EXCEPT
       ![task[u].client].stream = SelectSeq(@, LAMBDA p : p # u),
       ![task[u].client].torn = @ \/ task[u].pc \in {"body", "recv_body"},
       ![task[u].client].stale = @ \/ task[u].pc = "recv"]
  /\ task' = [task EXCEPT ![u] = Ended(@)]
  /\ UNCHANGED <<global, weak, servers, session, ids, calls, crashed>>

\* prove_impl returns, by its mode, or panics after wrap ("todo!()").
Return(u) ==
  /\ task[u].pc = "idle" /\ task[u].stage \in {1, 2, 4}
  /\ task' = [task EXCEPT ![u].stage = 0, ![u].got = "none"]
  /\ UNCHANGED <<global, weak, clients, servers, session, ids, calls, dropped, crashed>>

CloneKey(u, v) ==
  /\ task[u].key # 0 /\ task[v].key = 0 /\ task[v].pc = "idle"
  /\ task' = [task EXCEPT ![v].key = task[u].key]
  /\ UNCHANGED <<global, weak, clients, servers, session, ids, calls, dropped, crashed>>

DropKeyShared(u) ==
  LET k == task[u].key IN
  /\ task[u].pc = "idle" /\ task[u].stage = 0 /\ k # 0
  /\ task' = [task EXCEPT ![u].key = 0,
                          ![k] = [Idle EXCEPT !.pc = "lock", !.kind = "Destroy",
                                              !.client = session[k], !.key = k]]
  /\ clients' = [clients EXCEPT ![session[k]].stream = Append(@, k)]
  /\ UNCHANGED <<global, weak, servers, session, ids, calls, dropped, crashed>>

\* The last clone of a proving key drops the SessionKey, which spawns a task that
\* holds the client and destroys the key.
DropKey(u) ==
  LET k == task[u].key IN
  /\ task[u].pc = "idle" /\ task[u].stage = 0 /\ k # 0
  /\ IF \E v \in Users \ {u} : task[v].key = k
     THEN task' = [task EXCEPT ![u].key = 0] /\ UNCHANGED <<clients, session>>
     ELSE /\ task' = [task EXCEPT ![u].key = 0,
                                  ![k] = [Idle EXCEPT !.pc = "lock", !.kind = "Destroy",
                                                      !.client = session[k], !.key = k]]
          /\ clients' = [clients EXCEPT ![session[k]].stream = Append(@, k)]
          /\ session' = [session EXCEPT ![k] = 0]
  /\ UNCHANGED <<global, weak, servers, ids, calls, dropped, crashed>>

DropProver(u) ==
  /\ task[u].pc = "idle" /\ task[u].stage = 0 /\ task[u].client # 0
  /\ task' = [task EXCEPT ![u].client = 0, ![u].got = "none"]
  /\ UNCHANGED <<global, weak, clients, servers, session, ids, calls, dropped, crashed>>

\* The drop of a CudaClientInner comes after its last reference is gone: the
\* stream is shut down and the child killed.
DropInner(c) ==
  /\ ~ Live(c) /\ ~ clients[c].gone
  /\ clients' = [clients EXCEPT ![c].gone = TRUE, ![c].in = <<>>, ![c].out = <<>>]
  /\ servers' = Kill(clients[c].child)
  /\ UNCHANGED <<global, weak, session, task, ids, calls, dropped, crashed>>

-----------------------------------------------------------------------------
(* The server: it answers the requests of a connection in order, an error when *)
(* it does not hold the key, when it has no room for one, or of its own.       *)

Answer(c, kind, key) ==
  LET r == Head(clients[c].in) IN
  clients' = [clients EXCEPT ![c].in = Tail(@),
                             ![c].out = Append(@, [r EXCEPT !.kind = kind, !.key = key])]

Serve(c) ==
  /\ clients[c].in # <<>> /\ Up(c)
  /\ LET r == Head(clients[c].in)
         s == clients[c].server
     IN  \/ /\ r.kind = "Setup" /\ ids < MaxKeys
            /\ ids' = ids + 1
            /\ servers' = [servers EXCEPT ![s].keys = @ \cup {ids'}]
            /\ Answer(c, "Setup", ids')
         \/ /\ r.kind = "Destroy"
            /\ servers' = [servers EXCEPT ![s].keys = @ \ {r.key}]
            /\ Answer(c, "Destroy", r.key) /\ UNCHANGED ids
         \/ /\ r.kind \notin {"Setup", "Destroy"}
            /\ r.kind = "Core" => r.key \in servers[s].keys
            /\ Answer(c, r.kind, r.key) /\ UNCHANGED <<ids, servers>>
         \/ Answer(c, "Error", r.key) /\ UNCHANGED <<ids, servers>>
  /\ UNCHANGED <<global, weak, session, task, calls, dropped, crashed>>

Crash(s) ==
  /\ servers[s].running /\ Faults < MaxFaults
  /\ crashed' = crashed + 1
  /\ servers' = Kill(s)
  /\ UNCHANGED <<global, weak, clients, session, task, ids, calls, dropped>>

-----------------------------------------------------------------------------
Step(p) ==
  \/ \E len \in Lengths : WriteLen(p, len)
  \/ WriteBody(p) \/ ReadLen(p) \/ ReadBody(p) \/ ReadBodyFails(p)

Kinds == {"Setup"} \cup {Stages[i] : i \in DOMAIN Stages}

Next ==
  \/ \E u \in Users :
       \/ Connect(u) \/ Upgrade(u) \/ StartServer(u) \/ ConnectFails(u)
       \/ \E s \in DOMAIN servers : Attach(u, s)
       \/ \E kind \in Kinds : Call(u, kind)
       \/ DropFuture(u) \/ Return(u) \/ DropKey(u) \/ DropProver(u)
       \/ \E v \in Users \ {u} : CloneKey(u, v)
  \/ \E p \in Users \cup Keys : Step(p)
  \/ \E c \in DOMAIN clients : DropInner(c) \/ Serve(c)
  \/ \E s \in DOMAIN servers : Crash(s)

\* The runtime polls a task that can go on, and a server that runs answers what it
\* reads: recv has no timeout. Nothing makes a user call, connect or drop.
Fairness ==
  /\ \A p \in Users \cup Keys : WF_vars(Step(p))
  /\ \A c \in 1..MaxServers : WF_vars(c \in DOMAIN clients /\ Serve(c))

Spec == Init /\ [][Next]_vars /\ Fairness

-----------------------------------------------------------------------------
(* Properties *)

Processes == Users \cup Keys

TaskType ==
  [pc : {"idle", "connect", "start", "attach", "lock", "body", "recv", "recv_body"},
   client : 0..MaxServers, child : 0..MaxServers, key : 0..MaxKeys, stage : 0..Len(Stages),
   call : 0..MaxCalls, kind : Kinds \cup {"Destroy", "none"},
   got : {"none", "own", "other"}]

MessageType ==
  [by : Processes, call : 0..MaxCalls, kind : Kinds \cup {"Destroy", "Error"},
   key : 0..MaxKeys]

ClientType ==
  [child : 1..MaxServers, server : 1..MaxServers, stream : Seq(Processes),
   in : Seq(MessageType), out : Seq(MessageType),
   torn : BOOLEAN, long : BOOLEAN, stale : BOOLEAN, gone : BOOLEAN]

\* Every piece of the state has its type, and a task waits for the lock of CLIENT, or
\* has it, at most once (connect, client.rs).
TypeOK ==
  /\ global \in Seq(Users) /\ Len(global) <= Cardinality(Users) /\ weak \in 0..Len(clients)
  /\ clients \in Seq(ClientType)
  /\ servers \in Seq([running : BOOLEAN, keys : SUBSET Keys])
  /\ session \in [Keys -> 0..Len(clients)]
  /\ task \in [Processes -> TaskType]
  /\ ids \in 0..MaxKeys /\ calls \in 0..MaxCalls
  /\ dropped \in 0..MaxFaults /\ crashed \in 0..MaxFaults

\* The result a call returns answers that very call, whichever tasks share the
\* stream (send_and_recv keeps the lock from the first byte written to the last one
\* read: "This implementation is requierd to support concurrent connections to the
\* same device", client.rs), except on a stream where a call was dropped between
\* its request and its response: every later call there gets the previous answer.
OwnResponseUnlessDropped ==
  \A u \in Users :
    task[u].got = "other" => task[u].client # 0 /\ clients[task[u].client].stale

\* While a proving key is alive, or a core request that names it is on its way, the
\* server that gets the request holds the key: the last clone destroys it, the
\* destroy queues behind the requests, the key keeps its client and so its server
\* from being dropped, and connect never makes a second client meanwhile (pk.rs,
\* client.rs).
KeyHeld ==
  /\ \A u \in Users :
       task[u].key # 0 =>
         task[u].key \in servers[clients[session[task[u].key]].server].keys
  /\ \A c \in DOMAIN clients : \A i \in DOMAIN clients[c].in :
       clients[c].in[i].kind = "Core" =>
         clients[c].in[i].key \in servers[clients[c].server].keys

Connecting == {u \in Users : task[u].pc \in {"start", "attach"}}

\* At most one client of the device is alive or being made, it is the one CLIENT
\* points to, and every server that runs belongs to it, to the connect that started
\* it, or to a client whose last reference is gone (connect holds the lock of CLIENT
\* over the look-up, the start and the insert; "Note: This method may cause race
\* conditions, it should be called in a critical section", server.rs). The server
\* of a live client is the one it started and keeps running until it crashes, except
\* when the client connected while an earlier one, whose last reference was gone,
\* had not been dropped yet: then it may have reached the earlier one's server, which
\* is about to be killed ("Actually start the server now that we know there isnt one
\* running", client.rs).
OneServerUnlessEarlier ==
  LET alive == {c \in DOMAIN clients : Live(c)} IN
  /\ TypeOK
  /\ alive \subseteq {weak}
  /\ Cardinality(alive) + Cardinality(Connecting) <= 1
  /\ \A s \in DOMAIN servers : servers[s].running =>
       \/ \E u \in Connecting : task[u].child = s
       \/ \E c \in DOMAIN clients : clients[c].child = s /\ ~ clients[c].gone
  /\ crashed = 0 => \A c \in alive :
       \/ clients[c].server = clients[c].child /\ Up(c)
       \/ \E d \in 1..(c - 1) : clients[c].server = clients[d].child

\* A call that waits for the stream returns, with a result or an error, whatever the
\* other tasks do and if the server crashes, provided that a server that does not crash
\* answers every request: read_exact waits for as long as it takes. The exception is a
\* stream that was left in the middle of a message, or got a request of 4 GiB or more.
\* A key whose last clone is gone is destroyed likewise, or its destroy fails.
Returns ==
  \A p \in Processes :
    task[p].pc = "lock" ~>
      \/ task[p].pc = "idle"
      \/ task[p].client # 0 /\ LET c == clients[task[p].client] IN c.torn \/ c.long

=============================================================================
